---- MODULE Spec2Model ----
(***************************************************************************)
(* A model of swapwatch.py: the process resolver and its 30 s cache, the   *)
(* per-application swap collector with its adaptive cache TTL, the         *)
(* remediation pass (monitor_swap_usage), the start-up validation of the   *)
(* thresholds, the AlertManager and the MetricsDB.                         *)
(*                                                                         *)
(* Time is in whole seconds, scan durations in tenths of a second, swap    *)
(* percentages in whole percents and per-process swap in kilobytes.        *)
(***************************************************************************)
EXTENDS Integers, Sequences, FiniteSets, TLC

\* ------------------------------------------------------------------------
\* Bounds of the model
\* ------------------------------------------------------------------------

\* live processes a scan may see (their pids are 1..MaxProcs, in scan order)
MaxProcs == 3
\* largest per-process VmSwap value, in kB
MaxSwapKB == 2
\* the wall clock never passes Epoch + MaxTime
MaxTime == 60
\* the clock (time.time()) when the program starts
Epoch == 1000
\* counters stop growing here
MaxCount == 3

\* ------------------------------------------------------------------------
\* Program constants
\* ------------------------------------------------------------------------

\* get_monitored_pids_cached: the pid cache is good for 30 seconds
PID_CACHE_SECONDS == 30
\* _performance_stats['adaptive_cache_time'] at import time
DEFAULT_ADAPTIVE_CACHE_TIME == 10
\* the floor and the ceiling get_top_swap_apps clamps the TTL to
TTL_FLOOR == 10
TTL_CEILING == 30
\* "current_swap_usage > 50", "current_swap_usage < 20"
STRESS_SWAP_PERCENT == 50
IDLE_SWAP_PERCENT == 20
\* "scan_duration > 2.0", "scan_duration < 0.5", in tenths of a second
SLOW_SCAN_TENTHS == 20
FAST_SCAN_TENTHS == 5

\* monitored_apps, an insertion-ordered dict: three entries of the default
\* table, in the order the table lists them
monitored_apps ==
    << [name |-> "amavisd", service |-> "amavis",  include_children |-> TRUE],
       [name |-> "postfix", service |-> "postfix", include_children |-> FALSE],
       [name |-> "nginx",   service |-> "nginx",   include_children |-> TRUE] >>

AppNames == {monitored_apps[i].name : i \in 1..Len(monitored_apps)}

\* ------------------------------------------------------------------------
\* The environment: the process table a scan sees
\* ------------------------------------------------------------------------

\* What one live process looks like to the scan: the monitored patterns that
\* occur in its name, executable or command line; its parent (0: none of the
\* table); whether proc.children() raises NoSuchProcess/AccessDenied.
MatchSets == {{}, {"amavisd"}, {"postfix"}, {"nginx"}, {"amavisd", "postfix"}}

ProcAt(i) ==
    [matches : MatchSets, parent : {0} \cup {j \in {i - 1} : j >= 1}, childErr : BOOLEAN]

\* process_iter() yields the live processes by ascending pid: process i of a
\* table has pid i
ProcTablesOfLen(n) ==
    {t \in [1..n -> [matches : MatchSets, parent : 0..MaxProcs, childErr : BOOLEAN]] :
        \A i \in 1..n : t[i] \in ProcAt(i)}

\* the tables of at most n live processes
ProcTablesUpTo(n) == UNION {ProcTablesOfLen(k) : k \in 0..n}

\* ------------------------------------------------------------------------
\* State
\* ------------------------------------------------------------------------

VARIABLES
    now,                    \* time.time()
    \* the module's caches
    cached_monitored_pids,  \* _cached_monitored_pids: a sequence of entries, in dict order
    last_pid_scan,          \* _last_pid_scan
    cached_swap_data,       \* _cached_swap_data: the ranked list
    last_swap_scan,         \* _last_swap_scan
    performance_stats,      \* _performance_stats
    \* the objects main() creates
    alert_manager,          \* the AlertManager's fields
    metrics_db,             \* the MetricsDB's fields
    db,                     \* the rows of the SQLite tables
    \* main() and monitor_swap_usage()
    args,                   \* the parsed command line
    config,                 \* the [thresholds] table of the loaded configuration
    pc,                     \* where the program is
    swap_high_threshold,
    swap_low_threshold,
    last_check_time,
    shutdown_requested,     \* _shutdown_requested
    swap_percent,           \* monitor_swap_usage's last reading
    top_apps,               \* the ranked list of the pass
    app_index,              \* the position of "for app in top_apps"
    apps_restarted,
    \* the screen
    in_menu,                \* the monitored-apps menu is open
    in_theme,               \* the theme dialog is open
    in_app_select,          \* _in_app_select: a row of the top apps is selected
    log_lines_visible,      \* the rows of the log window
    log_lines,              \* the retained lines of the log window
    log_scroll_pos,         \* the first line the log window shows
    \* history
    pass,                   \* what the current remediation pass has done so far
    passes,                 \* remediation passes started
    alert_window,           \* per alert, the deliveries since the last one that opened a cooldown
    last_op                 \* the call made by the last step, and how it ended

cacheVars == <<cached_monitored_pids, last_pid_scan, cached_swap_data, last_swap_scan,
               performance_stats>>
alertVars == <<alert_manager, alert_window>>
metricsVars == <<metrics_db, db>>
screenVars == <<in_menu, in_theme, in_app_select, log_lines_visible>>
logVars == <<log_lines, log_scroll_pos>>
mainVars == <<args, config, pc, swap_high_threshold, swap_low_threshold, last_check_time,
              shutdown_requested, swap_percent, top_apps, app_index, apps_restarted,
              pass, passes, screenVars, logVars>>
vars == <<now, cacheVars, alertVars, metricsVars, mainVars, last_op>>

\* ------------------------------------------------------------------------
\* get_monitored_pids_cached: the scan
\* ------------------------------------------------------------------------

RECURSIVE IsDescendant(_, _, _)
\* j is a child, grandchild, ... of pid in table t
IsDescendant(t, j, pid) ==
    /\ t[j].parent # 0
    /\ \/ t[j].parent = pid
       \/ IsDescendant(t, t[j].parent, pid)

RECURSIVE SeqOfSet(_)
\* the members of a set of numbers, ascending
SeqOfSet(S) ==
    IF S = {} THEN <<>>
    ELSE LET m == CHOOSE x \in S : \A y \in S : x <= y
         IN <<m>> \o SeqOfSet(S \ {m})

\* proc.children(recursive=True)
Children(t, pid) == SeqOfSet({j \in DOMAIN t : IsDescendant(t, j, pid)})

\* index of the entry of app `name` in a pid cache, 0 when it has none
EntryIndex(cache, name) ==
    IF \E i \in 1..Len(cache) : cache[i].name = name
    THEN CHOOSE i \in 1..Len(cache) : cache[i].name = name
    ELSE 0

\* "if mon_name not in new_pid_cache: new_pid_cache[mon_name] = {...}"
EnsureEntry(cache, app) ==
    IF EntryIndex(cache, app.name) # 0 THEN cache
    ELSE Append(cache, [name |-> app.name, pids |-> <<>>,
                        include_children |-> app.include_children,
                        has_children |-> FALSE])

\* "new_pid_cache[mon_name]['pids'].append(pid)", for each of `pids`
AppendPids(cache, name, pids) ==
    LET i == EntryIndex(cache, name)
    IN [cache EXCEPT ![i].pids = @ \o pids]

SetHasChildren(cache, name) ==
    LET i == EntryIndex(cache, name)
    IN [cache EXCEPT ![i].has_children = TRUE]

RECURSIVE ScanProcess(_, _, _, _)
\* The inner loop "for mon_name in monitored_process_names", from the k-th
\* monitored name on, for the process `pid` of table t.  A process that
\* matches is added to that app's entry and the loop breaks; when
\* proc.children() raises, the handler's `continue` resumes the loop at the
\* next monitored name.
ScanProcess(cache, t, pid, k) ==
    IF k > Len(monitored_apps) THEN cache
    ELSE LET app == monitored_apps[k]
         IN IF app.name \notin t[pid].matches
            THEN ScanProcess(cache, t, pid, k + 1)
            ELSE LET c1 == AppendPids(EnsureEntry(cache, app), app.name, <<pid>>)
                     kids == Children(t, pid)
                 IN IF ~app.include_children THEN c1
                    ELSE IF t[pid].childErr THEN ScanProcess(c1, t, pid, k + 1)
                    ELSE IF kids = <<>> THEN c1
                    ELSE AppendPids(SetHasChildren(c1, app.name), app.name, kids)

RECURSIVE ScanFrom(_, _, _)
\* "for proc in psutil.process_iter(...)", from process `pid` on
ScanFrom(cache, t, pid) ==
    IF pid > Len(t) THEN cache
    ELSE ScanFrom(ScanProcess(cache, t, pid, 1), t, pid + 1)

\* new_pid_cache after the single pass through all processes
Scan(t) == ScanFrom(<<>>, t, 1)

\* every map a scan of at most n live processes can produce
ScanResultsUpTo(n) == {Scan(t) : t \in ProcTablesUpTo(n)}

\* a pid cache that is good for ten seconds less
PidCacheFreshShorter(force_refresh, current_time, last, cached) ==
    /\ ~force_refresh
    /\ current_time - last < PID_CACHE_SECONDS - 10
    /\ cached # <<>>

\* "if not force_refresh and current_time - _last_pid_scan < 30 and _cached_monitored_pids"
PidCacheFresh(force_refresh, current_time, last, cached) ==
    /\ ~force_refresh
    /\ current_time - last < PID_CACHE_SECONDS
    /\ cached # <<>>

\* get_monitored_pids_cached(force_refresh) called at current_time with the
\* caches (cached, last, stats); `scanned` is what a scan would find now and
\* `duration` the time it would take.  Gives the caches after the call; the
\* map returned is the `cached` of the result.
get_monitored_pids_cached(force_refresh, current_time, cached, last, stats, scanned, duration) ==
    IF PidCacheFresh(force_refresh, current_time, last, cached)
    THEN [cached |-> cached, last |-> last, hit |-> TRUE,
          stats |-> [stats EXCEPT !["cache_hits"] = @ + 1]]
    ELSE [cached |-> scanned, last |-> current_time, hit |-> FALSE,
          stats |-> [stats EXCEPT !["process_scans"] = @ + 1,
                                  !["last_scan_duration"] = duration]]

\* how long a scan takes, in tenths of a second: 0.1 s, 1 s, 3 s
ScanDurations == {1, 10, 30}

\* the counters may still grow by n
CountersBelow(n) ==
    /\ performance_stats["process_scans"] + n <= MaxCount
    /\ performance_stats["cache_hits"] + n <= MaxCount

\* A direct call of the resolver: the forced refresh of the 'c' key, the
\* unforced call of the process-detail view.  f.maps is what a scan may find
\* and f.durations how long it may take.
Resolve(force_refresh, f) ==
    /\ CountersBelow(1)
    /\ \E m \in f.maps, d \in f.durations :
          LET r == get_monitored_pids_cached(force_refresh, now, cached_monitored_pids,
                                             last_pid_scan, performance_stats, m, d)
          IN /\ cached_monitored_pids' = r.cached
             /\ last_pid_scan' = r.last
             /\ performance_stats' = r.stats
             /\ last_op' = [op |-> "resolve", force |-> force_refresh, hit |-> r.hit]
    /\ UNCHANGED <<now, cached_swap_data, last_swap_scan, alertVars, metricsVars, mainVars>>

\* ------------------------------------------------------------------------
\* get_top_swap_apps: the collector and the adaptive TTL
\* ------------------------------------------------------------------------

\* what psutil.swap_memory().total, and the SwapTotal line of /proc/meminfo,
\* may report, in bytes: no swap, or 100 kB of swap (a kilobyte of a
\* process's swap is then one percent)
SwapTotals == {0, 102400}

\* what /proc/<pid>/status may report for each pid, in kB; a record that is
\* missing, unreadable or malformed reads as 0
SwapReadings == [1..MaxProcs -> 0..MaxSwapKB]

RECURSIVE SumSwap(_, _)
\* "for pid in app_data['pids']: total_swap_bytes += swap_data.get(pid, 0)",
\* batch_read_swap_data having converted the kilobytes to bytes
SumSwap(pids, kb) ==
    IF pids = <<>> THEN 0
    ELSE kb[Head(pids)] * 1024 + SumSwap(Tail(pids), kb)

\* the entry appended to app_swap_usage for one entry of the pid cache
AppUsage(entry, kb, total_swap) ==
    LET total_swap_bytes == SumSwap(entry.pids, kb)
    IN [name |-> entry.name,
        swap_bytes |-> total_swap_bytes,
        swap_percent |-> (total_swap_bytes * 100) \div total_swap,
        include_children |-> entry.include_children,
        has_children |-> entry.has_children]

\* a sort that also moves an element in front of its equals
SortsBeforeOrEqual(x, y) == x.swap_percent >= y.swap_percent

\* x goes before y in list.sort(key=swap_percent, reverse=True)
SortsBefore(x, y) == x.swap_percent > y.swap_percent

RECURSIVE InsertSorted(_, _)
\* x put into the sorted list after every element it does not sort before
InsertSorted(sorted, x) ==
    IF sorted = <<>> THEN <<x>>
    ELSE IF SortsBefore(x, Head(sorted)) THEN <<x>> \o sorted
    ELSE <<Head(sorted)>> \o InsertSorted(Tail(sorted), x)

RECURSIVE SortBySwap(_, _)
\* app_swap_usage.sort(key=lambda x: x['swap_percent'], reverse=True): a
\* stable sort, the elements of `rest` inserted one by one into `sorted`
SortBySwap(sorted, rest) ==
    IF rest = <<>> THEN sorted
    ELSE SortBySwap(InsertSorted(sorted, Head(rest)), Tail(rest))

\* the adaptive cache timing at the end of a real collection
AdaptTtl(ttl, current_swap_usage, scan_duration) ==
    IF current_swap_usage > STRESS_SWAP_PERCENT \/ scan_duration > SLOW_SCAN_TENTHS
    THEN IF ttl - 1 > TTL_FLOOR THEN ttl - 1 ELSE TTL_FLOOR
    ELSE IF current_swap_usage < IDLE_SWAP_PERCENT /\ scan_duration < FAST_SCAN_TENTHS
    THEN IF ttl + 2 < TTL_CEILING THEN ttl + 2 ELSE TTL_CEILING
    ELSE ttl

\* "if not force_refresh and current_time - _last_swap_scan < adaptive_cache_time
\*  and _cached_swap_data"
SwapCacheFresh(force_refresh, current_time, last, ttl, cached) ==
    /\ ~force_refresh
    /\ current_time - last < ttl
    /\ cached # <<>>

\* a total that never falls back on /proc/meminfo
TotalSwapPrimaryOnly(primary, secondary) == primary

\* "total_swap = psutil.swap_memory().total", and the SwapTotal line of
\* /proc/meminfo when that is 0
TotalSwap(primary, secondary) == IF primary = 0 THEN secondary ELSE primary

\* a cached call that also adapts the cache time, as if the system were
\* under stress
ServeFromCacheAdapting(c) ==
    [c EXCEPT !.stats = [c.stats EXCEPT !["cache_hits"] = @ + 1,
                                        !["adaptive_cache_time"] = AdaptTtl(@, 100, 0)]]
    @@ [kind |-> "hit", pid_hit |-> FALSE]

\* "_performance_stats['cache_hits'] += 1; return _cached_swap_data"
ServeFromCache(c) ==
    [c EXCEPT !.stats = [c.stats EXCEPT !["cache_hits"] = @ + 1]]
    @@ [kind |-> "hit", pid_hit |-> FALSE]

\* the pid cache passed to the resolver inside get_top_swap_apps
ResolverForce(force_refresh) == FALSE

\* get_top_swap_apps(force_refresh) called at current_time on the caches c
\* (cached_pids, last_pid, cached_swap, last_swap, stats), with what the
\* environment would answer: env.primary and env.secondary (total swap),
\* env.scanned and env.duration (a process scan), env.kb (per-pid swap),
\* env.percent (psutil.swap_memory().percent).  Gives the caches after the
\* call; the list returned is the cached_swap of the result.
get_top_swap_apps(force_refresh, current_time, c, env) ==
    IF SwapCacheFresh(force_refresh, current_time, c.last_swap,
                      c.stats["adaptive_cache_time"], c.cached_swap)
    THEN ServeFromCache(c)
    ELSE LET total_swap == TotalSwap(env.primary, env.secondary)
         IN IF total_swap = 0
            THEN [c EXCEPT !.cached_swap = <<>>, !.last_swap = current_time]
                 @@ [kind |-> "noswap", pid_hit |-> FALSE]
            ELSE LET r == get_monitored_pids_cached(ResolverForce(force_refresh),
                                                    current_time, c.cached_pids, c.last_pid,
                                                    c.stats, env.scanned, env.duration)
                     pid_cache == r.cached
                     app_swap_usage ==
                         [i \in 1..Len(pid_cache) |-> AppUsage(pid_cache[i], env.kb, total_swap)]
                     ttl == AdaptTtl(r.stats["adaptive_cache_time"], env.percent,
                                     r.stats["last_scan_duration"])
                 IN [cached_pids |-> pid_cache,
                     last_pid |-> r.last,
                     cached_swap |-> SortBySwap(<<>>, app_swap_usage),
                     last_swap |-> current_time,
                     stats |-> [r.stats EXCEPT !["adaptive_cache_time"] = ttl],
                     kind |-> "real",
                     pid_hit |-> r.hit]

\* the caches as the record get_top_swap_apps works on
Caches ==
    [cached_pids |-> cached_monitored_pids, last_pid |-> last_pid_scan,
     cached_swap |-> cached_swap_data, last_swap |-> last_swap_scan,
     stats |-> performance_stats]

\* the caches become those of r
SetCaches(r) ==
    /\ cached_monitored_pids' = r.cached_pids
    /\ last_pid_scan' = r.last_pid
    /\ cached_swap_data' = r.cached_swap
    /\ last_swap_scan' = r.last_swap
    /\ performance_stats' = r.stats

\* psutil.swap_memory().percent: the readings the collector's specifications
\* draw from (idle, neither, under stress)
CachePercents == {10, 30, 60}

\* the pids of a pid cache
PidsOf(cache) == UNION {{cache[i].pids[j] : j \in 1..Len(cache[i].pids)} : i \in 1..Len(cache)}

\* The answers one call of get_top_swap_apps at current_time on the caches c
\* reads, out of the family f of answers (f.maps: what a scan may find, f.durations: how
\* long it may take, f.kbs: the per-pid swap readings, f.percents: the swap
\* percentages): an answer the call never asks for is left at a fixed value.
\* The first member is a host without swap.
RelevantEnvs(force_refresh, current_time, c, f) ==
    LET unread == [primary |-> 0, secondary |-> 0, scanned |-> <<>>, duration |-> 1,
                   kb |-> [p \in 1..MaxProcs |-> 0], percent |-> 0]
        scans == IF PidCacheFresh(ResolverForce(force_refresh), current_time, c.last_pid,
                                  c.cached_pids)
                 THEN {[scanned |-> c.cached_pids, duration |-> 1]}
                 ELSE [scanned : f.maps, duration : f.durations]
        positive == SwapTotals \ {0}
        totals == {[primary |-> t, secondary |-> 0] : t \in positive}
                      \cup {[primary |-> 0, secondary |-> t] : t \in positive}
    IN IF SwapCacheFresh(force_refresh, current_time, c.last_swap,
                         c.stats["adaptive_cache_time"], c.cached_swap)
       THEN {unread}
       ELSE {unread} \cup
            UNION {{[primary |-> t.primary, secondary |-> t.secondary,
                     scanned |-> sc.scanned, duration |-> sc.duration,
                     kb |-> kb, percent |-> pct] :
                        t \in totals, pct \in f.percents,
                        kb \in {k \in f.kbs :
                                  \A p \in 1..MaxProcs : p \notin PidsOf(sc.scanned) => k[p] = 0}} :
                   sc \in scans}

\* A call of get_top_swap_apps(force_refresh): update_ui and record_sample's
\* argument (unforced), the 'c' key and the remediation pass (forced).
Collect(force_refresh, f) ==
    /\ CountersBelow(1)
    /\ \E env \in RelevantEnvs(force_refresh, now, Caches, f) :
          LET r == get_top_swap_apps(force_refresh, now, Caches, env)
          IN /\ SetCaches(r)
             /\ last_op' = [op |-> "collect", force |-> force_refresh, kind |-> r.kind,
                            pid_hit |-> r.pid_hit]
    /\ UNCHANGED <<now, alertVars, metricsVars, mainVars>>

\* how far the clock moves between two calls
TickSteps == {10, 30}

\* Time passes.
Tick(steps, horizon) ==
    /\ \E d \in steps :
          /\ now + d <= Epoch + horizon
          /\ now' = now + d
    /\ last_op' = [op |-> "tick"]
    /\ UNCHANGED <<cacheVars, alertVars, metricsVars, mainVars>>

\* ------------------------------------------------------------------------
\* Start-up state
\* ------------------------------------------------------------------------

\* the [performance] table of a configuration file: each key may be absent
PerfConfigs ==
    {<<>>} \cup {[adaptive_cache_min |-> lo] : lo \in {5, 15}}
           \cup {[adaptive_cache_max |-> hi] : hi \in {20}}
           \cup {[adaptive_cache_min |-> lo, adaptive_cache_max |-> hi] :
                    lo \in {5, 15}, hi \in {20}}

\* _performance_stats as the module sets it at import
ImportStats ==
    [process_scans |-> 0, cache_hits |-> 0, last_scan_duration |-> 0,
     adaptive_cache_time |-> DEFAULT_ADAPTIVE_CACHE_TIME]

\* apply_config's handling of the [performance] table
ApplyPerfConfig(stats, perf) ==
    LET s1 == IF "adaptive_cache_min" \in DOMAIN perf
              THEN [stats EXCEPT !["adaptive_cache_time"] = perf["adaptive_cache_min"]]
                   @@ [adaptive_cache_min |-> perf["adaptive_cache_min"]]
              ELSE stats
    IN IF "adaptive_cache_max" \in DOMAIN perf
       THEN s1 @@ [adaptive_cache_max |-> perf["adaptive_cache_max"]]
       ELSE s1

\* the clock and the module's caches at import
ColdCaches ==
    /\ now = Epoch
    /\ cached_monitored_pids = <<>>
    /\ last_pid_scan = 0
    /\ cached_swap_data = <<>>
    /\ last_swap_scan = 0

\* the caches once apply_config has run
InitCaches ==
    /\ ColdCaches
    /\ \E perf \in PerfConfigs : performance_stats = ApplyPerfConfig(ImportStats, perf)

\* ------------------------------------------------------------------------
\* AlertManager
\* ------------------------------------------------------------------------

\* alerts_cfg.get("cooldown_minutes", 15)
DEFAULT_COOLDOWN_MINUTES == 15

\* An alert message is its first 50 characters (head) and the rest (tail).
\* "alert_key = f'{severity}:{message[:50]}'"
AlertKey(severity, message) == <<severity, message.head>>

\* a cooldown whose minutes are compared as if they were seconds
IsCooledDownInMinutes(am, alert_key, current_time) ==
    LET last == IF alert_key \in DOMAIN am.last_sent THEN am.last_sent[alert_key] ELSE 0
    IN current_time - last >= am.cooldown_seconds \div 60

\* _is_cooled_down: "last = self._last_sent.get(alert_key, 0)"
IsCooledDown(am, alert_key, current_time) ==
    LET last == IF alert_key \in DOMAIN am.last_sent THEN am.last_sent[alert_key] ELSE 0
    IN current_time - last >= am.cooldown_seconds

\* the channels send_alert hands the alert to, once it passed the cooldown:
\* "if self.email_enabled and self.email_to", "if self.webhook_enabled and
\* self.webhook_url"
ChannelsTried(am) ==
    (IF am.email THEN {"email"} ELSE {}) \cup (IF am.webhook THEN {"webhook"} ELSE {})

\* AlertManager.send_alert(severity, message, swap_percent) at current_time:
\* the manager after the call and the channels a delivery was attempted on.
\* _send_email and _send_webhook catch every exception of the delivery.
send_alert(am, severity, message, current_time) ==
    IF ~am.enabled THEN [am |-> am, attempted |-> {}]
    ELSE IF ~IsCooledDown(am, AlertKey(severity, message), current_time)
    THEN [am |-> am, attempted |-> {}]
    ELSE [am |-> [am EXCEPT !.last_sent =
                     [k \in DOMAIN @ \cup {AlertKey(severity, message)} |->
                         IF k = AlertKey(severity, message) THEN current_time ELSE @[k]]],
          attempted |-> ChannelsTried(am)]

\* History: for each alert <<severity, message>> that send_alert was called
\* with, when it was last called (called_at), when a delivery last opened a
\* cooldown for it (opened_at, 0: never), and the deliveries attempted on
\* each channel since then.  A delivery less than the cooldown after the
\* opening one is counted into the same window.
NoteDelivery(window, cooldown, severity, message, attempted, current_time) ==
    LET k == <<severity, message>>
        n(ch) == IF ch \in attempted THEN 1 ELSE 0
        old == IF k \in DOMAIN window THEN window[k]
               ELSE [called_at |-> 0, opened_at |-> 0, email |-> 0, webhook |-> 0]
        new == IF attempted = {} THEN old
               ELSE IF old.opened_at # 0 /\ current_time - old.opened_at < cooldown
               THEN [old EXCEPT !.email = @ + n("email"), !.webhook = @ + n("webhook")]
               ELSE [old EXCEPT !.opened_at = current_time, !.email = n("email"),
                                !.webhook = n("webhook")]
    IN [j \in DOMAIN window \cup {k} |->
           IF j = k THEN [new EXCEPT !.called_at = current_time] ELSE window[j]]

\* the message of the alert of the remediation pass,
\* f"Swap usage at {swap_percent:.1f}%, exceeds {swap_high_threshold}%":
\* shorter than 50 characters
ExceedsMessage(percent, high) ==
    [head |-> [swap |-> percent, high |-> high], tail |-> ""]

\* the AlertManager main() builds from the [alerts] table
AlertManagers ==
    [enabled : BOOLEAN, cooldown_seconds : {m * 60 : m \in {1, DEFAULT_COOLDOWN_MINUTES}},
     email : BOOLEAN, webhook : BOOLEAN, last_sent : {<<>>}]

\* A call of send_alert, with any severity and message.
SendAlert(severities, messages) ==
    /\ \E sev \in severities, msg \in messages :
          LET r == send_alert(alert_manager, sev, msg, now)
          IN /\ alert_manager' = r.am
             /\ alert_window' = NoteDelivery(alert_window, alert_manager.cooldown_seconds,
                                             sev, msg, r.attempted, now)
             /\ last_op' = [op |-> "send_alert", severity |-> sev, message |-> msg,
                            attempted |-> r.attempted]
    /\ UNCHANGED <<now, cacheVars, metricsVars, mainVars>>

\* ------------------------------------------------------------------------
\* MetricsDB
\* ------------------------------------------------------------------------

\* history_cfg.get("sample_interval", 300)
DEFAULT_SAMPLE_INTERVAL == 300

\* The database: the rows of each table that are committed, and the rows the
\* connection has inserted in its open transaction.
EmptyDb ==
    [swap_samples |-> <<>>, app_swap_usage |-> <<>>, actions_log |-> <<>>,
     pending |-> [swap_samples |-> <<>>, app_swap_usage |-> <<>>, actions_log |-> <<>>]]

\* self._conn.commit()
Commit(d) ==
    [swap_samples |-> d.swap_samples \o d.pending.swap_samples,
     app_swap_usage |-> d.app_swap_usage \o d.pending.app_swap_usage,
     actions_log |-> d.actions_log \o d.pending.actions_log,
     pending |-> EmptyDb.pending]

\* how the statements of one record_sample call may end: all succeed; the
\* INSERT into swap_samples raises; an INSERT into app_swap_usage raises; the
\* commit raises
SampleOutcomes == {"ok", "sample_insert_fails", "app_insert_fails", "commit_fails"}

\* the rows record_sample inserts into app_swap_usage
AppRows(ts, app_data) ==
    [i \in 1..Len(app_data) |-> [timestamp |-> ts, app_name |-> app_data[i].name]]

\* a throttle that lets the call on the cache TTL's schedule through
SampleThrottledByTtl(mdb, current_time) ==
    current_time - mdb.last_sample_time < DEFAULT_ADAPTIVE_CACHE_TIME

\* "if now - self._last_sample_time < self.sample_interval: return"
SampleThrottled(mdb, current_time) ==
    current_time - mdb.last_sample_time < mdb.sample_interval

\* MetricsDB.record_sample(swap_percent, mem_percent, app_data) at
\* current_time: the object and the database after the call; whether a
\* statement was executed on the connection (tried), whether one was executed
\* successfully (wrote) and whether one raised (failed: the exception is
\* caught and logged as a warning).
record_sample(mdb, d, percent, app_data, current_time, outcome) ==
    IF ~mdb.enabled \/ ~mdb.conn
    THEN [mdb |-> mdb, db |-> d, wrote |-> FALSE, tried |-> FALSE, failed |-> FALSE]
    ELSE IF SampleThrottled(mdb, current_time)
    THEN [mdb |-> mdb, db |-> d, wrote |-> FALSE, tried |-> FALSE, failed |-> FALSE]
    ELSE LET m1 == [mdb EXCEPT !.last_sample_time = current_time]
             row == [timestamp |-> current_time, swap_percent |-> percent]
             d1 == [d EXCEPT !.pending.swap_samples = Append(@, row)]
             d2 == [d1 EXCEPT !.pending.app_swap_usage = @ \o AppRows(current_time, app_data)]
         IN IF outcome = "sample_insert_fails"
            THEN [mdb |-> m1, db |-> d, wrote |-> FALSE, tried |-> TRUE, failed |-> TRUE]
            ELSE IF outcome = "app_insert_fails" /\ app_data # <<>>
            THEN [mdb |-> m1, db |-> d1, wrote |-> TRUE, tried |-> TRUE, failed |-> TRUE]
            ELSE IF outcome = "commit_fails"
            THEN [mdb |-> m1, db |-> d2, wrote |-> TRUE, tried |-> TRUE, failed |-> TRUE]
            ELSE [mdb |-> m1, db |-> Commit(d2), wrote |-> TRUE, tried |-> TRUE,
                  failed |-> FALSE]

\* how the statements of one record_action call may end
ActionOutcomes == {"ok", "insert_fails", "commit_fails"}

\* a record_action that is also held back by the throttle of the samples
ActionSkippedOrThrottled(mdb, current_time) ==
    ~mdb.enabled \/ ~mdb.conn \/ SampleThrottled(mdb, current_time)

\* record_action's only early return: "if not self.enabled or not self._conn"
ActionSkipped(mdb, current_time) == ~mdb.enabled \/ ~mdb.conn

\* MetricsDB.record_action(action_type, target, result) at current_time
record_action(mdb, d, action_type, target, result, current_time, outcome) ==
    IF ActionSkipped(mdb, current_time)
    THEN [mdb |-> mdb, db |-> d, wrote |-> FALSE, tried |-> FALSE, failed |-> FALSE]
    ELSE LET row == [timestamp |-> current_time, action_type |-> action_type,
                     target |-> target, result |-> result]
             d1 == [d EXCEPT !.pending.actions_log = Append(@, row)]
         IN IF outcome = "insert_fails"
            THEN [mdb |-> mdb, db |-> d, wrote |-> FALSE, tried |-> TRUE, failed |-> TRUE]
            ELSE IF outcome = "commit_fails"
            THEN [mdb |-> mdb, db |-> d1, wrote |-> TRUE, tried |-> TRUE, failed |-> TRUE]
            ELSE [mdb |-> mdb, db |-> Commit(d1), wrote |-> TRUE, tried |-> TRUE,
                  failed |-> FALSE]

\* the sample intervals a configuration may set
SampleIntervals == {20, DEFAULT_SAMPLE_INTERVAL}

\* The MetricsDB main() builds from the [history] table: disabled; enabled
\* with its database open; enabled in the configuration with _init_db failed
\* (which clears enabled and leaves no connection).
MetricsDbs ==
    {[enabled |-> e, conn |-> e, sample_interval |-> i, last_sample_time |-> 0] :
        e \in BOOLEAN, i \in SampleIntervals}

\* every system-level row the database holds, committed or not
SampleRows(d) == d.swap_samples \o d.pending.swap_samples

\* ------------------------------------------------------------------------
\* log_action: the log window
\* ------------------------------------------------------------------------

\* lines the log window retains (general.max_log_lines of the configuration
\* file)
MaxLogLines == 3

\* MAX_LOG_LINES as apply_config sets it: "MAX_LOG_LINES =
\* general['max_log_lines']"
MAX_LOG_LINES == MaxLogLines

\* log_action(action, log_lines, log_scroll_pos) with log_lines_visible rows:
\* the line is appended, the oldest lines beyond MAX_LOG_LINES are deleted
\* and the scroll position follows the bottom of the log.  Gives the lines
\* and the position it returns.
log_action(lines, pos, visible) ==
    LET appended == Append(lines, "line")
        removed == IF Len(appended) > MAX_LOG_LINES
                   THEN Len(appended) - MAX_LOG_LINES ELSE 0
        kept == SubSeq(appended, removed + 1, Len(appended))
        trimmed == IF removed = 0 THEN pos
                   ELSE IF pos - removed > 0 THEN pos - removed ELSE 0
    IN [log_lines |-> kept,
        log_scroll_pos |->
            IF visible > 0
            THEN IF trimmed >= Len(kept) - (visible + 1)
                 THEN Len(kept) - visible ELSE trimmed
            ELSE IF Len(kept) - 1 > 0 THEN Len(kept) - 1 ELSE 0]

\* n calls "log_scroll_pos = log_action(..., log_lines, log_scroll_pos)" in a
\* row
RECURSIVE LogActions(_, _, _, _)
LogActions(n, lines, pos, visible) ==
    IF n = 0 THEN [log_lines |-> lines, log_scroll_pos |-> pos]
    ELSE LET r == log_action(lines, pos, visible)
         IN LogActions(n - 1, r.log_lines, r.log_scroll_pos, visible)

\* a step of the program that logs n lines
Logs(n) ==
    LET r == LogActions(n, log_lines, log_scroll_pos, log_lines_visible)
    IN /\ log_lines' = r.log_lines
       /\ log_scroll_pos' = r.log_scroll_pos

\* the lines drop_caches logs: "Cleared caches: freed ..." when a meaningful
\* amount was freed and nothing otherwise, one line for an exception
DropLines(outcome) == IF outcome = "dropped" THEN {0, 1} ELSE {1}

\* ------------------------------------------------------------------------
\* main(): the thresholds
\* ------------------------------------------------------------------------

\* SWAP_HIGH_THRESHOLD and SWAP_LOW_THRESHOLD as the module defines them
SWAP_HIGH_THRESHOLD == 80
SWAP_LOW_THRESHOLD == 65
\* CHECK_INTERVAL
CHECK_INTERVAL == 300
\* "time.sleep(2)" after the cache drop and after each restart
SETTLE_SECONDS == 2

\* a dict with some of the keys swap_high, swap_low
OptionalThresholds(highs, lows) ==
    {<<>>} \cup {[swap_high |-> h] : h \in highs} \cup {[swap_low |-> l] : l \in lows}
           \cup {[swap_high |-> h, swap_low |-> l] : h \in highs, l \in lows}

\* --swap-high and --swap-low as given on the command line (absent: None)
ArgsGiven == OptionalThresholds({90}, {85}) \ {[swap_high |-> 90, swap_low |-> 85]}

\* the [thresholds] table of the configuration file
ConfigsGiven == OptionalThresholds({120}, {0 - 5}) \ {[swap_high |-> 120, swap_low |-> 0 - 5]}

\* apply_config: "if 'swap_high' in thresholds: SWAP_HIGH_THRESHOLD = ..."
ConfiguredHigh(cfg) ==
    IF "swap_high" \in DOMAIN cfg THEN cfg["swap_high"] ELSE SWAP_HIGH_THRESHOLD

ConfiguredLow(cfg) ==
    IF "swap_low" \in DOMAIN cfg THEN cfg["swap_low"] ELSE SWAP_LOW_THRESHOLD

\* "args.swap_high if args.swap_high is not None else SWAP_HIGH_THRESHOLD"
EffectiveHigh(a, cfg) ==
    IF "swap_high" \in DOMAIN a THEN a["swap_high"] ELSE ConfiguredHigh(cfg)

EffectiveLow(a, cfg) ==
    IF "swap_low" \in DOMAIN a THEN a["swap_low"] ELSE ConfiguredLow(cfg)

\* a validation that only compares the two thresholds
ThresholdsCompared(low, high) == ~(low >= high)

\* main's validation: neither "sys.exit(1)" is reached
ThresholdsAccepted(low, high) ==
    /\ ~(low >= high)
    /\ 0 <= low /\ low <= 100 /\ 0 <= high /\ high <= 100

\* ------------------------------------------------------------------------
\* monitor_swap_usage: the remediation pass
\* ------------------------------------------------------------------------

\* monitored_apps[proc_name][0]
ServiceOf(name) ==
    LET i == CHOOSE j \in 1..Len(monitored_apps) : monitored_apps[j].name = name
    IN monitored_apps[i].service

\* how drop_caches may end: the caches are dropped (then it sleeps a second);
\* PermissionError; any other exception
DropOutcomes == {"dropped", "permission_denied", "failed"}

\* what drop_caches logs when it fails: "except PermissionError" and
\* "except Exception as e" (nothing of the kind when the caches are dropped)
DropReport(outcome) ==
    IF outcome = "permission_denied" THEN "Cannot drop caches: insufficient permissions"
    ELSE IF outcome = "failed" THEN "Failed to drop caches"
    ELSE ""

\* a drop_caches whose exceptions reach main() and end the program
AfterDropRaising(outcome) ==
    IF outcome = "dropped" THEN "pass_settle_drop" ELSE "exit_error"

\* where the program is once drop_caches is over: "return log_scroll_pos"
\* after the try statement, then the "time.sleep(2)" of the pass
AfterDrop(outcome) == "pass_settle_drop"

\* how restart_app's subprocess.run may end: it returns; TimeoutExpired;
\* CalledProcessError; any other exception
RestartOutcomes == {"success", "timeout", "failed", "error"}

\* a restart_app that records a timeout as a failure
ActionResultUnclassified(outcome) == IF outcome = "timeout" THEN "failed" ELSE outcome

\* the result restart_app hands to record_action
ActionResult(outcome) == outcome

\* the history of a pass that has just been entered
NewPass(initial, current_time) ==
    [initial |-> initial, started_at |-> current_time, running |-> TRUE,
     first |-> 0, drops |-> 0, alerts |-> 0, refreshed |-> FALSE,
     restarted |-> <<>>, log |-> <<>>]

\* The pass returns to main(): the first pass to "last_check_time =
\* time.time()", a pass of the loop to "last_check_time = current_time".
Return(current_time, history) ==
    /\ pc' = "loop"
    /\ pass' = [history EXCEPT !.running = FALSE]
    /\ last_check_time' = IF history.initial THEN current_time ELSE history.started_at

\* a pass that already acts on a reading fifteen points under the threshold
ExceedsHighEarly(percent, high) == percent >= high - 15

\* "if swap_percent >= swap_high_threshold"
ExceedsHigh(percent, high) == percent >= high

\* a pass that goes on to the restarts from one point under the low threshold
StillTooHighEarly(percent, low) == percent >= low - 1

\* "if swap_percent >= swap_low_threshold" after the cache drop
StillTooHigh(percent, low) == percent >= low

\* a cascade that stops on a reading equal to the low threshold
BelowLowOrEqual(percent, low) == percent <= low

\* "if swap_percent < swap_low_threshold" after a restart
BelowLow(percent, low) == percent < low

\* a cascade that never notices it has reached the end of the list
ReachedEndNever(restarted, ranked) == restarted > Len(ranked)

\* "if apps_restarted == len(top_apps)"
ReachedEnd(restarted, ranked) == restarted = Len(ranked)

\* The pass reads the swap usage.  Below the high threshold it logs and
\* returns; otherwise it logs, sends the alert, drops the caches and goes to
\* sleep for the settle delay.
PassRead(percents) ==
    /\ pc = "pass_read"
    /\ \E r \in percents :
          /\ swap_percent' = r
          /\ IF ExceedsHigh(r, swap_high_threshold)
             THEN \E dropped \in DropOutcomes :
                  LET a == send_alert(alert_manager, "critical",
                                      ExceedsMessage(r, swap_high_threshold), now)
                  IN /\ alert_manager' = a.am
                     /\ alert_window' = NoteDelivery(alert_window, alert_manager.cooldown_seconds,
                                                     "critical",
                                                     ExceedsMessage(r, swap_high_threshold),
                                                     a.attempted, now)
                     /\ now' = IF dropped = "dropped" THEN now + 1 ELSE now
                     /\ pc' = AfterDrop(dropped)
                     /\ pass' = [pass EXCEPT !.first = r, !.drops = @ + 1, !.alerts = @ + 1,
                                             !.log = Append(@, "exceeds")]
                     /\ last_op' = [op |-> "drop_caches", outcome |-> dropped,
                                    report |-> DropReport(dropped),
                                    attempted |-> a.attempted]
                     /\ \E said \in DropLines(dropped) : Logs(1 + said)
                     /\ UNCHANGED last_check_time
             ELSE /\ Return(now, [pass EXCEPT !.first = r, !.log = Append(@, "below_high")])
                  /\ last_op' = [op |-> "pass_read"]
                  /\ Logs(1)
                  /\ UNCHANGED <<now, alertVars>>
    /\ UNCHANGED <<cacheVars, metricsVars, screenVars, args, config, swap_high_threshold,
                   swap_low_threshold, shutdown_requested, top_apps, app_index,
                   apps_restarted, passes>>

\* a ranked list that names every app twice
NamesOfRepeated(ranked) ==
    [i \in 1..(2 * Len(ranked)) |-> ranked[((i - 1) % Len(ranked)) + 1].name]

\* the names of a ranked list
NamesOf(ranked) == [i \in 1..Len(ranked) |-> ranked[i].name]

\* After the settle delay the pass reads the swap usage again.  Below the low
\* threshold it logs and returns; otherwise it logs, refreshes the ranked
\* list and enters the loop over it.
PassAfterDrop(percents, f) ==
    /\ pc = "pass_settle_drop"
    /\ now' = now + SETTLE_SECONDS
    /\ Logs(1)
    /\ \E r \in percents :
          /\ swap_percent' = r
          /\ IF StillTooHigh(r, swap_low_threshold)
             THEN /\ CountersBelow(1)
                  /\ \E env \in RelevantEnvs(TRUE, now', Caches, [f EXCEPT !.percents = {r}]) :
                        LET c == get_top_swap_apps(TRUE, now', Caches, env)
                            h == [pass EXCEPT !.refreshed = TRUE,
                                              !.log = Append(@, "still_too_high")]
                        IN /\ SetCaches(c)
                           /\ top_apps' = NamesOf(c.cached_swap)
                           /\ last_op' = [op |-> "collect", force |-> TRUE, kind |-> c.kind,
                                          pid_hit |-> c.pid_hit]
                           /\ IF c.cached_swap = <<>>
                              THEN Return(now', h)
                              ELSE /\ pc' = "pass_cascade"
                                   /\ pass' = h
                                   /\ UNCHANGED last_check_time
                  /\ apps_restarted' = 0
                  /\ app_index' = 1
             ELSE /\ Return(now', [pass EXCEPT !.log = Append(@, "below_low")])
                  /\ last_op' = [op |-> "pass_after_drop"]
                  /\ UNCHANGED <<cacheVars, top_apps, app_index, apps_restarted>>
    /\ UNCHANGED <<alertVars, metricsVars, screenVars, args, config, swap_high_threshold,
                   swap_low_threshold, shutdown_requested, passes>>

\* a cascade that returns instead of going on once a shutdown was requested
AdvanceUnlessShutdown(i, current_time, history) ==
    /\ app_index' = i
    /\ IF i > Len(top_apps) \/ shutdown_requested
       THEN Return(current_time, history)
       ELSE /\ pc' = "pass_cascade"
            /\ pass' = history
            /\ UNCHANGED last_check_time

\* "for app in top_apps" moves on to position i: the next app, or the end of
\* the loop and of the pass
Advance(i, current_time, history) ==
    /\ app_index' = i
    /\ IF i > Len(top_apps)
       THEN Return(current_time, history)
       ELSE /\ pc' = "pass_cascade"
            /\ pass' = history
            /\ UNCHANGED last_check_time

\* One iteration of the loop up to its sleep: an app that is not monitored is
\* skipped; otherwise its service is restarted and the outcome recorded.
\* The clock counts the sleeps of the program, not the time a command takes.
PassRestart(db_outcomes) ==
    /\ pc = "pass_cascade"
    /\ LET proc_name == top_apps[app_index]
       IN IF proc_name \notin AppNames
          THEN /\ Advance(app_index + 1, now, pass)
               /\ last_op' = [op |-> "skip"]
               /\ UNCHANGED <<now, metricsVars, apps_restarted, logVars>>
          ELSE \E outcome \in RestartOutcomes, stored \in db_outcomes :
                  LET service_name == ServiceOf(proc_name)
                      r == record_action(metrics_db, db, "restart", service_name,
                                         ActionResult(outcome), now, stored)
                  IN /\ UNCHANGED now
                     /\ Logs(2)
                     /\ metrics_db' = r.mdb
                     /\ db' = r.db
                     /\ apps_restarted' = apps_restarted + 1
                     /\ pass' = [pass EXCEPT !.restarted = Append(@, service_name)]
                     /\ pc' = "pass_settle_restart"
                     /\ last_op' = [op |-> "restart_app", service |-> service_name,
                                    outcome |-> outcome, recorded |-> r.wrote,
                                    tried |-> r.tried]
                     /\ UNCHANGED <<app_index, last_check_time>>
    /\ UNCHANGED <<cacheVars, alertVars, screenVars, args, config, swap_high_threshold,
                   swap_low_threshold, shutdown_requested, swap_percent, top_apps, passes>>

\* After the settle delay of a restart the pass reads the swap usage: below
\* the low threshold it logs and breaks out of the loop; otherwise it logs
\* that it gives up (this was the last app) or that it goes on, and the loop
\* moves on.
PassAfterRestart(percents) ==
    /\ pc = "pass_settle_restart"
    /\ now' = now + SETTLE_SECONDS
    /\ \E r \in percents :
          /\ swap_percent' = r
          /\ IF BelowLow(r, swap_low_threshold)
             THEN /\ Return(now', [pass EXCEPT !.log = @ \o <<"done_below", "resuming">>])
                  /\ Logs(2)
                  /\ UNCHANGED app_index
             ELSE IF ReachedEnd(apps_restarted, top_apps)
             THEN /\ Advance(app_index + 1, now',
                             [pass EXCEPT !.log = @ \o <<"gave_up", "resuming">>])
                  /\ Logs(2)
             ELSE /\ Advance(app_index + 1, now',
                             [pass EXCEPT !.log = Append(@, "continuing")])
                  /\ Logs(1)
    /\ last_op' = [op |-> "pass_after_restart"]
    /\ UNCHANGED <<cacheVars, alertVars, metricsVars, screenVars, args, config,
                   swap_high_threshold,
                   swap_low_threshold, shutdown_requested, top_apps, apps_restarted, passes>>

\* ------------------------------------------------------------------------
\* main(): start-up and the loop
\* ------------------------------------------------------------------------

\* passes a run of the program starts, the one before the loop included
MaxPasses == 2

\* main() from the parsed arguments to the first call of monitor_swap_usage:
\* the thresholds are chosen and validated, the program must run as root,
\* the log window gets its rows and the two lines of the start-up, and the
\* first update_ui shows get_top_swap_apps() on a host that has swap.
Startup(f) ==
    /\ pc = "start"
    /\ swap_high_threshold' = EffectiveHigh(args, config)
    /\ swap_low_threshold' = EffectiveLow(args, config)
    /\ IF ~ThresholdsAccepted(swap_low_threshold', swap_high_threshold')
       THEN /\ pc' = "exit_error"
            /\ UNCHANGED <<cacheVars, pass, passes, log_lines_visible, logVars>>
       ELSE \E is_root \in BOOLEAN :
               IF ~is_root
               THEN /\ pc' = "exit_error"
                    /\ UNCHANGED <<cacheVars, pass, passes, log_lines_visible, logVars>>
               ELSE /\ \E rows \in f.rows :
                          LET r == LogActions(2, log_lines, log_scroll_pos, rows)
                          IN /\ log_lines_visible' = rows
                             /\ log_lines' = r.log_lines
                             /\ log_scroll_pos' = r.log_scroll_pos
                    /\ \E env \in {e \in RelevantEnvs(FALSE, now, Caches, f) :
                                      TotalSwap(e.primary, e.secondary) # 0} :
                          SetCaches(get_top_swap_apps(FALSE, now, Caches, env))
                    /\ pc' = "pass_read"
                    /\ pass' = NewPass(TRUE, now)
                    /\ passes' = passes + 1
    /\ last_op' = [op |-> "startup"]
    /\ UNCHANGED <<now, alertVars, metricsVars, in_menu, in_theme, in_app_select, args, config,
                   last_check_time,
                   shutdown_requested, swap_percent, top_apps, app_index, apps_restarted>>

\* The loop polls until the check interval has passed.
LoopIdle ==
    /\ pc = "loop"
    /\ ~shutdown_requested
    /\ now - last_check_time < CHECK_INTERVAL
    /\ now' = last_check_time + CHECK_INTERVAL
    /\ last_op' = [op |-> "idle"]
    /\ UNCHANGED <<cacheVars, alertVars, metricsVars, mainVars>>

\* a loop that also calls monitor_swap_usage while a pass sleeps
StartPassReentrant ==
    /\ pc \in {"loop", "pass_settle_drop", "pass_settle_restart"}
    /\ ~shutdown_requested
    /\ now - last_check_time >= CHECK_INTERVAL
    /\ passes < MaxPasses
    /\ pc' = "pass_read"
    /\ pass' = NewPass(FALSE, now)
    /\ passes' = passes + 1
    /\ last_op' = [op |-> "start_pass"]
    /\ UNCHANGED <<now, cacheVars, alertVars, metricsVars, screenVars, logVars, args, config,
                   swap_high_threshold,
                   swap_low_threshold, last_check_time, shutdown_requested, swap_percent,
                   top_apps, app_index, apps_restarted>>

\* "if current_time - last_check_time >= CHECK_INTERVAL": the loop calls
\* monitor_swap_usage.
StartPass ==
    /\ pc = "loop"
    /\ ~shutdown_requested
    /\ now - last_check_time >= CHECK_INTERVAL
    /\ passes < MaxPasses
    /\ pc' = "pass_read"
    /\ pass' = NewPass(FALSE, now)
    /\ passes' = passes + 1
    /\ last_op' = [op |-> "start_pass"]
    /\ UNCHANGED <<now, cacheVars, alertVars, metricsVars, screenVars, logVars, args, config,
                   swap_high_threshold,
                   swap_low_threshold, last_check_time, shutdown_requested, swap_percent,
                   top_apps, app_index, apps_restarted>>

\* _signal_handler: SIGTERM or SIGINT arrives, at any moment after main()
\* registered the handler.
Signal ==
    /\ pc \notin {"start", "exit_error", "exited"}
    /\ ~shutdown_requested
    /\ shutdown_requested' = TRUE
    /\ last_op' = [op |-> "signal"]
    /\ UNCHANGED <<now, cacheVars, alertVars, metricsVars, screenVars, logVars, args, config, pc,
                   swap_high_threshold, swap_low_threshold, last_check_time, swap_percent,
                   top_apps, app_index, apps_restarted, pass, passes>>

\* "while not _shutdown_requested": the loop ends, in the main view, the
\* menu or the theme dialog.  main() logs the shutdown (the position
\* log_action returns is dropped) and closes the MetricsDB.
Exit ==
    /\ pc = "loop"
    /\ shutdown_requested
    /\ pc' = "exited"
    /\ log_lines' = log_action(log_lines, log_scroll_pos, log_lines_visible).log_lines
    /\ metrics_db' = [metrics_db EXCEPT !.conn = FALSE]
    /\ last_op' = [op |-> "exit"]
    /\ UNCHANGED <<now, cacheVars, alertVars, db, screenVars, log_scroll_pos, args, config,
                   swap_high_threshold,
                   swap_low_threshold, last_check_time, shutdown_requested, swap_percent,
                   top_apps, app_index, apps_restarted, pass, passes>>

\* main() and the pass before main() runs
InitMain ==
    /\ args \in ArgsGiven
    /\ config \in ConfigsGiven
    /\ pc = "start"
    /\ swap_high_threshold = 0
    /\ swap_low_threshold = 0
    /\ last_check_time = 0
    /\ shutdown_requested = FALSE
    /\ swap_percent = 0
    /\ top_apps = <<>>
    /\ app_index = 0
    /\ apps_restarted = 0
    /\ pass = [NewPass(TRUE, 0) EXCEPT !.running = FALSE]
    /\ passes = 0
    /\ in_menu = FALSE
    /\ in_theme = FALSE
    /\ in_app_select = FALSE
    /\ log_lines_visible = 0
    /\ log_lines = <<>>
    /\ log_scroll_pos = 0

\* main() with nothing on the command line and no configuration file, never
\* started: the state of the specifications that call the caches, the
\* AlertManager or the MetricsDB directly
MainAside ==
    /\ InitMain
    /\ args = <<>>
    /\ config = <<>>

\* the process tables of the remediation pass: every process matches one
\* monitored app, no two the same one, and none has children
PassTables ==
    {t \in UNION {[1..n -> [matches : {{a} : a \in AppNames}, parent : {0},
                            childErr : {FALSE}]] : n \in 0..Len(monitored_apps)} :
        \A i, j \in DOMAIN t : i # j => t[i].matches # t[j].matches}

PassMaps == {Scan(t) : t \in PassTables}

\* psutil.swap_memory().percent as a pass reads it: just below the low
\* threshold, on it (below the high one), and on the high threshold
PassPercents == {swap_low_threshold - 1, swap_low_threshold, swap_high_threshold}

\* what the environment answers the collector during a pass: the pid p holds
\* p kB of swap, or none when that is more than MaxSwapKB; the system's swap
\* percentage is the one the pass has just read; the log window of the
\* terminal has two rows
PassFamily ==
    [maps |-> PassMaps, durations |-> {1},
     kbs |-> {[p \in 1..MaxProcs |-> IF p <= MaxSwapKB THEN p ELSE 0]},
     percents |-> {}, rows |-> {2}]

\* what the environment answers the collector at start-up: the swap of the
\* system is neither idle nor under stress
StartupFamily == [PassFamily EXCEPT !.percents = {30}]

\* ------------------------------------------------------------------------
\* Spec: the program from start-up on, pass after pass
\* ------------------------------------------------------------------------

Init ==
    /\ ColdCaches
    /\ performance_stats = ImportStats
    /\ alert_manager \in {am \in AlertManagers :
                             /\ am.cooldown_seconds = DEFAULT_COOLDOWN_MINUTES * 60
                             /\ am.enabled /\ am.email /\ am.webhook}
    /\ alert_window = <<>>
    /\ metrics_db \in {m \in MetricsDbs :
                          ~m.enabled /\ m.sample_interval = DEFAULT_SAMPLE_INTERVAL}
    /\ db = EmptyDb
    /\ InitMain
    /\ last_op = [op |-> "none"]

Next ==
    \/ Startup(StartupFamily)
    \/ PassRead(PassPercents)
    \/ PassAfterDrop(PassPercents, PassFamily)
    \/ PassRestart({"ok"})
    \/ PassAfterRestart(PassPercents)
    \/ LoopIdle
    \/ StartPass
    \/ Signal
    \/ Exit

Spec == Init /\ [][Next]_vars

\* ------------------------------------------------------------------------
\* Properties of the remediation pass and of the start-up (Spec)
\* ------------------------------------------------------------------------

\* C15 as stated: a forced call of get_top_swap_apps that reaches the
\* resolver aggregates over a map scanned inside that call, never over the
\* cached map.
C15_ForcedCollectionScans ==
    (last_op.op = "collect" /\ last_op.force /\ last_op.kind = "real") => ~last_op.pid_hit

\* C1: a pass whose first reading is below the high threshold drops no cache,
\* restarts no service, sends no alert and refreshes no ranked list: it has
\* ended after logging the reading.
C1_BelowHighNoAction ==
    (pass.log # <<>> /\ pass.first < swap_high_threshold) =>
        /\ pass.drops = 0
        /\ pass.alerts = 0
        /\ pass.restarted = <<>>
        /\ ~pass.refreshed
        /\ ~pass.running
        /\ pass.log = <<"below_high">>

\* a pass of the loop has ended on a first reading below the high threshold
C1_Witness ==
    /\ ~pass.initial
    /\ pass.log = <<"below_high">>
    /\ pass.first < swap_high_threshold
    /\ pc = "loop"

\* C2: when the first reading reached the high threshold and the reading
\* after the cache drop and the settle delay is below the low threshold, the
\* pass ends there: no service is restarted and neither the ranked list nor
\* the caches behind it are refreshed.
C2_BelowLowAfterDrop ==
    [][(/\ pc = "pass_settle_drop"
        /\ pass.first >= swap_high_threshold
        /\ pc' # pc
        /\ swap_percent' < swap_low_threshold) =>
           /\ pc' = "loop"
           /\ ~pass'.running
           /\ pass'.restarted = <<>>
           /\ ~pass'.refreshed
           /\ apps_restarted' = apps_restarted
           /\ UNCHANGED <<cacheVars, top_apps, metricsVars>>]_vars

\* a pass has ended right after the cache drop, with a ranked list of an
\* earlier pass still in place
C2_Witness ==
    /\ pass.log = <<"exceeds", "below_low">>
    /\ ~pass.running
    /\ pass.drops = 1
    /\ swap_percent < swap_low_threshold
    /\ top_apps # <<>>

\* C3: the services a pass has restarted are those of a prefix of its ranked
\* list, in rank order; every step of the cascade restarts the next ranked
\* app, and after the restart of rank k the cascade goes on to rank k+1
\* exactly when the reading after that restart is still at or above the low
\* threshold and the list has a rank k+1.
C3_RestartsArePrefix ==
    /\ [](pass.refreshed =>
             /\ Len(pass.restarted) <= Len(top_apps)
             /\ \A i \in 1..Len(pass.restarted) :
                   \E j \in 1..Len(monitored_apps) :
                      /\ monitored_apps[j].name = top_apps[i]
                      /\ monitored_apps[j].service = pass.restarted[i])
    /\ [][/\ (pc = "pass_cascade" /\ pc' # pc) =>
                /\ Len(pass'.restarted) = Len(pass.restarted) + 1
                /\ pc' = "pass_settle_restart"
          /\ (pc = "pass_settle_restart" /\ pc' # pc) =>
                LET k == Len(pass.restarted)
                IN /\ pass'.restarted = pass.restarted
                   /\ (swap_percent' >= swap_low_threshold /\ k < Len(top_apps))
                          <=> (pc' = "pass_cascade" /\ app_index' = k + 1)]_vars

\* a pass stopped after the second of three ranked apps, the first of which
\* is not the first app of the monitored table
C3_Witness ==
    /\ pass.refreshed
    /\ ~pass.running
    /\ Len(top_apps) = 3
    /\ Len(pass.restarted) = 2
    /\ top_apps[1] # monitored_apps[1].name
    /\ swap_percent < swap_low_threshold

\* C4: when the last app of the ranked list has been restarted and the
\* reading after it is still at or above the low threshold, the pass logs
\* that it gave up and ends without another restart.
C4_GaveUpAtEnd ==
    [][(/\ pc = "pass_settle_restart"
        /\ pc' # pc
        /\ Len(pass.restarted) = Len(top_apps)
        /\ swap_percent' >= swap_low_threshold) =>
           /\ pc' = "loop"
           /\ ~pass'.running
           /\ pass'.log = pass.log \o <<"gave_up", "resuming">>
           /\ pass'.restarted = pass.restarted]_vars

\* a pass has restarted all three ranked apps and given up
C4_Witness ==
    /\ ~pass.running
    /\ Len(top_apps) = 3
    /\ Len(pass.restarted) = 3
    /\ Len(pass.log) >= 2
    /\ pass.log[Len(pass.log) - 1] = "gave_up"
    /\ swap_percent >= swap_low_threshold

\* C6: the effective thresholds are the command line's over the
\* configuration's over the defaults; when the low one is not below the high
\* one, or either is outside 0..100, the program exits at start-up before
\* any pass; every pass works with exactly the effective thresholds, and
\* they satisfy 0 <= low < high <= 100.
C6_ThresholdsValidated ==
    LET high == IF "swap_high" \in DOMAIN args THEN args["swap_high"]
                ELSE IF "swap_high" \in DOMAIN config THEN config["swap_high"]
                ELSE 80
        low == IF "swap_low" \in DOMAIN args THEN args["swap_low"]
               ELSE IF "swap_low" \in DOMAIN config THEN config["swap_low"]
               ELSE 65
        invalid == low >= high \/ low < 0 \/ low > 100 \/ high < 0 \/ high > 100
    IN /\ (pc # "start" /\ invalid) => (pc = "exit_error" /\ passes = 0)
       /\ passes > 0 =>
             /\ swap_high_threshold = high
             /\ swap_low_threshold = low
             /\ 0 <= low /\ low < high /\ high <= 100

\* the program has exited at start-up on a low threshold given on the command
\* line that is in range but above the default high threshold
C6_Witness ==
    /\ pc = "exit_error"
    /\ passes = 0
    /\ "swap_low" \in DOMAIN args
    /\ config = <<>>
    /\ swap_low_threshold >= swap_high_threshold
    /\ swap_low_threshold <= 100

\* C18: a pass is in progress exactly while the program is inside
\* monitor_swap_usage; the loop evaluates its check interval, and starts a
\* pass, only when no pass is in progress; and a pass that has returned has
\* slept the settle delay after its cache drop and after each of its
\* restarts.
C18_OnePassAtATime ==
    /\ [](/\ pass.running <=> pc \in {"pass_read", "pass_settle_drop", "pass_cascade",
                                        "pass_settle_restart"}
          /\ ~pass.running =>
                now - pass.started_at
                   >= SETTLE_SECONDS * (pass.drops + Len(pass.restarted)))
    /\ [][/\ last_op'.op \in {"idle", "start_pass"} => (pc = "loop" /\ ~pass.running)
          /\ passes' # passes =>
                /\ ~pass.running
                /\ passes' = passes + 1
                /\ pass'.running
                /\ pass'.started_at = now]_vars

\* the second pass has started, a check interval after the first one
\* returned from restarting three services
C18_Witness ==
    /\ passes = 2
    /\ pc = "pass_read"
    /\ pass.running
    /\ apps_restarted = 3
    /\ pass.started_at = last_check_time + CHECK_INTERVAL
    /\ last_check_time >= Epoch + SETTLE_SECONDS * 4

\* C19: the program exits only from the loop, with no pass in progress; a
\* pass in progress when the shutdown is requested goes on, and every pass,
\* shutdown requested or not, ends in one of the ways a pass ends: on a first
\* reading below the high threshold, on a reading below the low threshold
\* after the cache drop or after a restart, on an empty ranked list, or after
\* the restart of the last ranked app.
C19_ShutdownWaitsForPass ==
    /\ [][pc' = "exited" => (pc = "loop" /\ shutdown_requested /\ ~pass.running)]_vars
    /\ [][(pass.running /\ shutdown_requested) =>
              /\ shutdown_requested'
              /\ pc' \in {"pass_settle_drop", "pass_cascade", "pass_settle_restart", "loop"}]_vars
    /\ [][(pass.running /\ ~pass'.running) =>
              LET log == pass'.log
                  n == Len(log)
              IN \/ log = <<"below_high">> /\ swap_percent' < swap_high_threshold
                 \/ /\ log = <<"exceeds", "below_low">>
                    /\ swap_percent' < swap_low_threshold
                    /\ now' >= pass.started_at + SETTLE_SECONDS
                 \/ log = <<"exceeds", "still_too_high">> /\ top_apps' = <<>>
                 \/ /\ n >= 4
                    /\ now' >= pass.started_at
                                  + SETTLE_SECONDS * (1 + Len(pass'.restarted))
                    /\ \/ /\ log[n - 1] = "done_below"
                          /\ swap_percent' < swap_low_threshold
                       \/ /\ log[n - 1] = "gave_up"
                          /\ Len(pass'.restarted) = Len(top_apps')]_vars

\* a pass of the loop has restarted a second service although the shutdown
\* was requested before that restart
C19_Witness ==
    /\ ~pass.initial
    /\ pass.running
    /\ shutdown_requested
    /\ last_op.op = "restart_app"
    /\ Len(pass.restarted) = 2

\* ------------------------------------------------------------------------
\* The specifications of the single components
\* ------------------------------------------------------------------------

\* an AlertManager and a MetricsDB that are switched off
AlertsOff ==
    /\ alert_manager = [enabled |-> FALSE, cooldown_seconds |-> DEFAULT_COOLDOWN_MINUTES * 60,
                        email |-> FALSE, webhook |-> FALSE, last_sent |-> <<>>]
    /\ alert_window = <<>>

MetricsOff ==
    /\ metrics_db = [enabled |-> FALSE, conn |-> FALSE,
                     sample_interval |-> DEFAULT_SAMPLE_INTERVAL, last_sample_time |-> 0]
    /\ db = EmptyDb

\* ---- SpecResolver: unforced calls of the resolver as time passes ----

\* what a scan finds when one process fewer is alive
ResolverFamily ==
    [maps |-> ScanResultsUpTo(MaxProcs - 1), durations |-> {1}]

InitResolver ==
    /\ ColdCaches
    /\ performance_stats = ImportStats
    /\ AlertsOff
    /\ MetricsOff
    /\ MainAside
    /\ last_op = [op |-> "none"]

NextResolver ==
    \/ Resolve(FALSE, ResolverFamily)
    \/ Tick({PID_CACHE_SECONDS - 10}, MaxTime)

SpecResolver == InitResolver /\ [][NextResolver]_vars

\* C9 as stated: an unforced resolver call made less than 30 seconds after
\* the call that scanned returns the cached map unchanged and increments the
\* hit counter and not the scan counter, whatever that scan found.
C9_SecondCallAlwaysHits ==
    [][(/\ last_op'.op = "resolve"
        /\ performance_stats["process_scans"] > 0
        /\ now - last_pid_scan < 30) =>
           /\ cached_monitored_pids' = cached_monitored_pids
           /\ performance_stats'["cache_hits"] = performance_stats["cache_hits"] + 1
           /\ performance_stats'["process_scans"] = performance_stats["process_scans"]]_vars

\* C9, amended: an unforced resolver call made less than 30 seconds after the
\* call that scanned returns the cached map unchanged, leaves the scan time
\* alone and increments only the hit counter, provided the scan found at
\* least one monitored process; after a scan that found none, the call scans
\* again and increments only the scan counter.
C9_SecondCallHitsNonEmpty ==
    [][(/\ last_op'.op = "resolve"
        /\ performance_stats["process_scans"] > 0
        /\ now - last_pid_scan < 30) =>
           IF cached_monitored_pids # <<>>
           THEN /\ cached_monitored_pids' = cached_monitored_pids
                /\ last_pid_scan' = last_pid_scan
                /\ performance_stats'["cache_hits"] = performance_stats["cache_hits"] + 1
                /\ performance_stats'["process_scans"] = performance_stats["process_scans"]
           ELSE /\ last_pid_scan' = now
                /\ performance_stats'["cache_hits"] = performance_stats["cache_hits"]
                /\ performance_stats'["process_scans"] =
                       performance_stats["process_scans"] + 1]_vars

\* a second call, 20 seconds after the scan, has hit a map of two apps
C9_Witness ==
    /\ last_op.op = "resolve"
    /\ last_op.hit
    /\ Len(cached_monitored_pids) = 2
    /\ now - last_pid_scan = 20
    /\ performance_stats["process_scans"] = 1
    /\ performance_stats["cache_hits"] = 1

\* C16 as stated: in the map a scan has produced no pid is in the entries of
\* two apps.
C16_PidInOneEntry ==
    (last_op.op = "resolve" /\ ~last_op.hit) =>
        \A i, j \in 1..Len(cached_monitored_pids) :
           i # j => PidsOf(<<cached_monitored_pids[i]>>)
                       \cap PidsOf(<<cached_monitored_pids[j]>>) = {}

\* C22 as stated: in the map a scan has produced no entry lists a pid twice
\* (the swap of the entry is summed over the list).
C22_PidOncePerEntry ==
    (last_op.op = "resolve" /\ ~last_op.hit) =>
        \A i \in 1..Len(cached_monitored_pids) :
           \A a, b \in 1..Len(cached_monitored_pids[i].pids) :
              a # b => cached_monitored_pids[i].pids[a] # cached_monitored_pids[i].pids[b]

\* ---- SpecTtl: collections, forced or not, under a configured TTL ----

\* a scan finds nothing, or one nginx process
TtlFamily ==
    [maps |-> {<<>>, Scan(<<[matches |-> {"nginx"}, parent |-> 0, childErr |-> FALSE]>>)},
     durations |-> ScanDurations,
     kbs |-> {[p \in 1..MaxProcs |-> 0]},
     percents |-> CachePercents]

InitTtl ==
    /\ InitCaches
    /\ AlertsOff
    /\ MetricsOff
    /\ MainAside
    /\ last_op = [op |-> "none"]

NextTtl ==
    \/ Collect(FALSE, TtlFamily)
    \/ Collect(TRUE, TtlFamily)
    \/ Tick({PID_CACHE_SECONDS}, MaxTime)

SpecTtl == InitTtl /\ [][NextTtl]_vars

\* C5 as stated: with the configured bounds minTtl <= maxTtl (10 and 30 where
\* the configuration gives none), the adaptive cache TTL is within
\* [minTtl, maxTtl] in every reachable state.
C5_TtlWithinConfiguredBounds ==
    LET minTtl == IF "adaptive_cache_min" \in DOMAIN performance_stats
                  THEN performance_stats["adaptive_cache_min"] ELSE 10
        maxTtl == IF "adaptive_cache_max" \in DOMAIN performance_stats
                  THEN performance_stats["adaptive_cache_max"] ELSE 30
    IN minTtl <= maxTtl =>
          /\ minTtl <= performance_stats["adaptive_cache_time"]
          /\ performance_stats["adaptive_cache_time"] <= maxTtl

\* C20 as stated: a real collection leaves the TTL at the value the rule
\* gives for the swap percentage it read and the duration of the last scan,
\* with the configured bounds (10 and 30 where the configuration gives none):
\* max(minTtl, ttl - 1) under stress, min(maxTtl, ttl + 2) when idle, ttl
\* otherwise.
C20_TtlRuleWithConfiguredBounds ==
    [][(last_op'.op = "collect" /\ last_op'.kind = "real") =>
          LET minTtl == IF "adaptive_cache_min" \in DOMAIN performance_stats
                        THEN performance_stats["adaptive_cache_min"] ELSE 10
              maxTtl == IF "adaptive_cache_max" \in DOMAIN performance_stats
                        THEN performance_stats["adaptive_cache_max"] ELSE 30
              ttl == performance_stats["adaptive_cache_time"]
              scanDuration == performance_stats'["last_scan_duration"]
              rule(systemSwapPercent) ==
                  IF systemSwapPercent > 50 \/ scanDuration > 20
                  THEN IF minTtl > ttl - 1 THEN minTtl ELSE ttl - 1
                  ELSE IF systemSwapPercent < 20 /\ scanDuration < 5
                  THEN IF maxTtl < ttl + 2 THEN maxTtl ELSE ttl + 2
                  ELSE ttl
          IN \E systemSwapPercent \in CachePercents :
                performance_stats'["adaptive_cache_time"] = rule(systemSwapPercent)]_vars

\* C25: a get_top_swap_apps call served from the cache leaves the adaptive
\* cache time, the cached ranked list and the time of the last collection as
\* they were, and the adaptive cache time changes in no step but a real
\* collection.
C25_CachedCallFrame ==
    [][/\ (last_op'.op = "collect" /\ last_op'.kind = "hit") =>
             /\ performance_stats'["adaptive_cache_time"] =
                   performance_stats["adaptive_cache_time"]
             /\ cached_swap_data' = cached_swap_data
             /\ last_swap_scan' = last_swap_scan
       /\ performance_stats'["adaptive_cache_time"] # performance_stats["adaptive_cache_time"] =>
             last_op'.op = "collect" /\ last_op'.kind = "real"]_vars

\* a call has been served from the cache of an earlier scan, with a cache
\* time above the floor
C25_Witness ==
    /\ last_op.op = "collect"
    /\ last_op.kind = "hit"
    /\ cached_swap_data # <<>>
    /\ performance_stats["cache_hits"] >= 1
    /\ performance_stats["process_scans"] >= 1
    /\ performance_stats["adaptive_cache_time"] > TTL_FLOOR

\* C23 as stated: a get_top_swap_apps call served from its cache leaves the
\* counter in which the resolver counts its hits as it was, and a resolver
\* hit inside a real collection leaves the counter in which the collector
\* counts its hits as it was.  Both count in _performance_stats['cache_hits'].
C23_IndependentHitCounters ==
    [][(/\ last_op'.op = "collect"
        /\ last_op'.kind = "hit" \/ (last_op'.kind = "real" /\ last_op'.pid_hit)) =>
           performance_stats'["cache_hits"] = performance_stats["cache_hits"]]_vars

\* ---- SpecRank: one real collection of whatever a scan can find ----

\* the maps of the remediation pass and those a scan finds when one process
\* fewer is alive, each pid with any amount of swap
RankFamily ==
    [maps |-> PassMaps \cup ScanResultsUpTo(MaxProcs - 1), durations |-> {1},
     kbs |-> SwapReadings, percents |-> {30}]

InitRank ==
    /\ ColdCaches
    /\ performance_stats = ImportStats
    /\ AlertsOff
    /\ MetricsOff
    /\ MainAside
    /\ last_op = [op |-> "none"]

\* the first call of get_top_swap_apps
RankOnce ==
    /\ last_swap_scan = 0
    /\ Collect(FALSE, RankFamily)

SpecRank == InitRank /\ [][RankOnce]_vars

\* C10: a real collection returns one entry per app of the resolver's map,
\* sorted by swap percentage in non-increasing order, and entries with equal
\* percentages are in the order their apps have in the resolver's map.
C10_RankedBySwap ==
    (last_op.op = "collect" /\ last_op.kind = "real") =>
        /\ Len(cached_swap_data) = Len(cached_monitored_pids)
        /\ {cached_swap_data[i].name : i \in 1..Len(cached_swap_data)}
               = {cached_monitored_pids[i].name : i \in 1..Len(cached_monitored_pids)}
        /\ \A i, j \in 1..Len(cached_swap_data) :
              i < j =>
                 /\ cached_swap_data[i].swap_percent >= cached_swap_data[j].swap_percent
                 /\ cached_swap_data[i].swap_percent = cached_swap_data[j].swap_percent =>
                       \E a, b \in 1..Len(cached_monitored_pids) :
                          /\ a < b
                          /\ cached_monitored_pids[a].name = cached_swap_data[i].name
                          /\ cached_monitored_pids[b].name = cached_swap_data[j].name

\* three apps have been ranked: the two on top are tied and both were behind
\* the third in the resolver's map
C10_Witness ==
    /\ last_op.op = "collect"
    /\ last_op.kind = "real"
    /\ Len(cached_swap_data) = 3
    /\ cached_swap_data[1].swap_percent = cached_swap_data[2].swap_percent
    /\ cached_swap_data[2].swap_percent > cached_swap_data[3].swap_percent
    /\ cached_swap_data[3].name = cached_monitored_pids[1].name

\* ---- SpecAlert: calls of send_alert as time passes ----

AlertSeverities == {"warning", "critical"}

\* two messages with the same first 50 characters
AlertMessages == {[head |-> "swap is high", tail |-> ""],
                  [head |-> "swap is high", tail |-> ", again"]}

InitAlert ==
    /\ ColdCaches
    /\ performance_stats = ImportStats
    /\ alert_manager \in AlertManagers
    /\ alert_window = <<>>
    /\ MetricsOff
    /\ MainAside
    /\ last_op = [op |-> "none"]

NextAlert ==
    \/ SendAlert(AlertSeverities, AlertMessages)
    \/ Tick({30}, MaxTime)

SpecAlert == InitAlert /\ [][NextAlert]_vars

\* C7: with alerting enabled, when a call has attempted a delivery, a call
\* with the same severity and the same message made less than the cooldown
\* after it attempts none and leaves the manager as it is, so that the two
\* calls make exactly one delivery attempt on each enabled channel (and none
\* on a channel that is not enabled).
C7_OneDeliveryPerCooldown ==
    /\ [](\A k \in DOMAIN alert_window :
             alert_window[k].opened_at # 0 =>
                /\ alert_manager.enabled
                /\ alert_window[k].email = (IF alert_manager.email THEN 1 ELSE 0)
                /\ alert_window[k].webhook = (IF alert_manager.webhook THEN 1 ELSE 0))
    /\ [][(/\ last_op'.op = "send_alert"
           /\ <<last_op'.severity, last_op'.message>> \in DOMAIN alert_window
           /\ alert_window[<<last_op'.severity, last_op'.message>>].opened_at # 0
           /\ now - alert_window[<<last_op'.severity, last_op'.message>>].opened_at
                  < alert_manager.cooldown_seconds) =>
              /\ last_op'.attempted = {}
              /\ alert_manager' = alert_manager]_vars

\* a second call, 30 seconds after the one that was delivered on both
\* channels, has been suppressed
C7_Witness ==
    /\ last_op.op = "send_alert"
    /\ last_op.attempted = {}
    /\ alert_manager.email /\ alert_manager.webhook
    /\ <<last_op.severity, last_op.message>> \in DOMAIN alert_window
    /\ LET w == alert_window[<<last_op.severity, last_op.message>>]
       IN /\ w.opened_at # 0
          /\ w.called_at = w.opened_at + 30
          /\ w.called_at = now
          /\ w.email = 1 /\ w.webhook = 1

\* ---- SpecMetrics: the UI update of the main loop as time passes ----

\* a scan finds one nginx process, holding a kilobyte of swap
MetricsFamily ==
    [maps |-> {Scan(<<[matches |-> {"nginx"}, parent |-> 0, childErr |-> FALSE]>>)},
     durations |-> {1},
     kbs |-> {[p \in 1..MaxProcs |-> IF p = 1 THEN 1 ELSE 0]},
     percents |-> {30}]

\* The UI update of the main loop: update_ui shows get_top_swap_apps(), and
\* with the MetricsDB enabled record_sample is handed the swap percentage and
\* get_top_swap_apps() again.
UpdateUi(f, outcomes) ==
    /\ pc = "start"
    /\ CountersBelow(2)
    /\ \E env1 \in RelevantEnvs(FALSE, now, Caches, f) :
          LET c1 == get_top_swap_apps(FALSE, now, Caches, env1)
              shown == [cached_pids |-> c1.cached_pids, last_pid |-> c1.last_pid,
                        cached_swap |-> c1.cached_swap, last_swap |-> c1.last_swap,
                        stats |-> c1.stats]
          IN IF ~metrics_db.enabled
             THEN /\ SetCaches(c1)
                  /\ last_op' = [op |-> "update_ui", wrote |-> FALSE]
                  /\ UNCHANGED metricsVars
             ELSE \E env2 \in RelevantEnvs(FALSE, now, shown, f), swap_pct \in f.percents,
                     outcome \in outcomes :
                     LET c2 == get_top_swap_apps(FALSE, now, shown, env2)
                         r == record_sample(metrics_db, db, swap_pct, c2.cached_swap, now,
                                            outcome)
                     IN /\ SetCaches(c2)
                        /\ metrics_db' = r.mdb
                        /\ db' = r.db
                        /\ last_op' = [op |-> "update_ui", wrote |-> r.wrote]
    /\ UNCHANGED <<now, alertVars, mainVars>>

InitMetrics ==
    /\ ColdCaches
    /\ \E perf \in {<<>>, [adaptive_cache_min |-> 15]} :
          performance_stats = ApplyPerfConfig(ImportStats, perf)
    /\ AlertsOff
    /\ metrics_db \in {m \in MetricsDbs :
                          m.enabled \/ m.sample_interval = DEFAULT_SAMPLE_INTERVAL}
    /\ db = EmptyDb
    /\ MainAside
    /\ last_op = [op |-> "none"]

NextMetrics ==
    \/ UpdateUi(MetricsFamily, SampleOutcomes)
    \/ Tick(TickSteps, MaxTime)

SpecMetrics == InitMetrics /\ [][NextMetrics]_vars

\* C8: the system-level rows the database holds are at least sample_interval
\* apart, and a record_sample call made less than sample_interval after the
\* last of them writes no row, whatever the TTL of the collector's cache is.
C8_OneSamplePerInterval ==
    /\ [](\A i, j \in 1..Len(SampleRows(db)) :
             i < j => SampleRows(db)[j].timestamp - SampleRows(db)[i].timestamp
                          >= metrics_db.sample_interval)
    /\ [][(/\ last_op'.op = "update_ui"
           /\ SampleRows(db) # <<>>
           /\ now - SampleRows(db)[Len(SampleRows(db))].timestamp
                  < metrics_db.sample_interval) =>
              /\ SampleRows(db') = SampleRows(db)
              /\ db'.app_swap_usage = db.app_swap_usage
              /\ db'.pending = db.pending]_vars

\* a call made 10 seconds after a sample was written has written nothing,
\* although the collector's cache had expired and was refreshed by the call
C8_Witness ==
    /\ last_op.op = "update_ui"
    /\ ~last_op.wrote
    /\ metrics_db.enabled
    /\ Len(SampleRows(db)) = 1
    /\ now = SampleRows(db)[1].timestamp + 10
    /\ performance_stats["adaptive_cache_time"] # metrics_db.sample_interval
    /\ last_swap_scan = now

\* ---- SpecStore: calls of record_sample and record_action as time passes ----

\* rows of actions_log, committed or not, a run of SpecStore lets the
\* database hold
MaxRows == 2

\* every row of actions_log the database holds, committed or not
ActionRows(d) == d.actions_log \o d.pending.actions_log

\* the one-app list a caller hands to record_sample
StoreAppData == <<[name |-> "nginx"]>>

\* A call of record_sample.
RecordSample(percents, outcomes) ==
    /\ \E percent \in percents, outcome \in outcomes :
          LET r == record_sample(metrics_db, db, percent, StoreAppData, now, outcome)
          IN /\ metrics_db' = r.mdb
             /\ db' = r.db
             /\ last_op' = [op |-> "record_sample", tried |-> r.tried, wrote |-> r.wrote,
                            failed |-> r.failed]
    /\ UNCHANGED <<now, cacheVars, alertVars, mainVars>>

\* A call of record_action, as restart_app makes it.
RecordAction(targets, results, outcomes) ==
    /\ Len(ActionRows(db)) < MaxRows
    /\ \E target \in targets, result \in results, outcome \in outcomes :
          LET r == record_action(metrics_db, db, "restart", target, ActionResult(result),
                                 now, outcome)
          IN /\ metrics_db' = r.mdb
             /\ db' = r.db
             /\ last_op' = [op |-> "record_action", target |-> target,
                            result |-> ActionResult(result), tried |-> r.tried,
                            wrote |-> r.wrote, failed |-> r.failed]
    /\ UNCHANGED <<now, cacheVars, alertVars, mainVars>>

InitStore ==
    /\ ColdCaches
    /\ performance_stats = ImportStats
    /\ AlertsOff
    /\ metrics_db \in MetricsDbs
    /\ db = EmptyDb
    /\ MainAside
    /\ last_op = [op |-> "none"]

NextStore ==
    \/ RecordSample({30}, SampleOutcomes)
    \/ RecordAction({"nginx"}, {"success", "timeout"}, ActionOutcomes)
    \/ Tick({30}, MaxTime)

SpecStore == InitStore /\ [][NextStore]_vars

\* C11 as stated: once a record_sample or record_action call has met a
\* persistence error the MetricsDB is disabled, and the call that follows it
\* executes no statement on the connection.
C11_DisabledAfterError ==
    /\ []((last_op.op \in {"record_sample", "record_action"} /\ last_op.failed) =>
              ~metrics_db.enabled)
    /\ [][(/\ last_op.op \in {"record_sample", "record_action"}
           /\ last_op.failed
           /\ last_op'.op \in {"record_sample", "record_action"}) =>
              ~last_op'.tried]_vars

\* C12: on an enabled MetricsDB with an open connection, a record_action
\* call whose statements succeed leaves exactly one more row in actions_log,
\* the row of the call, committed, however recently a sample or another
\* action was written.
C12_ActionsNeverThrottled ==
    [][(/\ last_op'.op = "record_action"
        /\ metrics_db.enabled /\ metrics_db.conn
        /\ ~last_op'.failed) =>
           /\ last_op'.tried /\ last_op'.wrote
           /\ db'.actions_log =
                 Append(ActionRows(db), [timestamp |-> now, action_type |-> "restart",
                                         target |-> last_op'.target,
                                         result |-> last_op'.result])
           /\ db'.pending.actions_log = <<>>]_vars

\* an action has been recorded in the second in which a sample and another
\* action were recorded, far inside the sample interval
C12_Witness ==
    /\ last_op.op = "record_action"
    /\ last_op.wrote /\ ~last_op.failed
    /\ metrics_db.sample_interval = DEFAULT_SAMPLE_INTERVAL
    /\ Len(db.swap_samples) = 1
    /\ db.swap_samples[1].timestamp = now
    /\ Len(db.actions_log) = 2
    /\ db.actions_log[1].timestamp = now
    /\ db.actions_log[2].timestamp = now

\* ---- SpecDelivery: calls of send_alert whose deliveries may fail ----

\* how the SMTP session of _send_email, and the HTTP request of
\* _send_webhook, may end: it returns, or it raises
DeliveryOutcomes == {"sent", "failed"}

\* a _send_email that lets the exception of a failed delivery escape
send_email_uncaught(outcome) ==
    [delivered |-> outcome = "sent", raised |-> outcome # "sent"]

\* _send_email: "except Exception as e: logging.warning(...)"
send_email(outcome) == [delivered |-> outcome = "sent", raised |-> FALSE]

\* _send_webhook: "except Exception as e: logging.warning(...)"
send_webhook(outcome) == [delivered |-> outcome = "sent", raised |-> FALSE]

\* The two "if" statements that end send_alert, in their order: the channels
\* a delivery was attempted on, those that delivered, and whether an
\* exception leaves send_alert (after which no further statement runs).
Deliver(am, email_outcome, webhook_outcome) ==
    LET none == [delivered |-> FALSE, raised |-> FALSE]
        e == IF am.email THEN send_email(email_outcome) ELSE none
        w == IF am.webhook THEN send_webhook(webhook_outcome) ELSE none
    IN IF e.raised
       THEN [attempted |-> {"email"}, delivered |-> {}, raised |-> TRUE]
       ELSE [attempted |-> ChannelsTried(am),
             delivered |-> (IF e.delivered THEN {"email"} ELSE {})
                              \cup (IF w.delivered THEN {"webhook"} ELSE {}),
             raised |-> w.raised]

\* A call of send_alert, with any severity and message, whose deliveries end
\* in any way.
SendAlertDelivering(severities, messages, outcomes) ==
    /\ \E sev \in severities, msg \in messages, email_outcome \in outcomes,
          webhook_outcome \in outcomes :
          LET passed == /\ alert_manager.enabled
                        /\ IsCooledDown(alert_manager, AlertKey(sev, msg), now)
              r == send_alert(alert_manager, sev, msg, now)
              d == IF passed THEN Deliver(alert_manager, email_outcome, webhook_outcome)
                   ELSE [attempted |-> {}, delivered |-> {}, raised |-> FALSE]
          IN /\ alert_manager' = r.am
             /\ alert_window' = NoteDelivery(alert_window, alert_manager.cooldown_seconds,
                                             sev, msg, d.attempted, now)
             /\ last_op' = [op |-> "send_alert", severity |-> sev, message |-> msg,
                            passed |-> passed, attempted |-> d.attempted,
                            delivered |-> d.delivered, raised |-> d.raised]
    /\ UNCHANGED <<now, cacheVars, metricsVars, mainVars>>

NextDelivery ==
    \/ SendAlertDelivering(AlertSeverities, AlertMessages, DeliveryOutcomes)
    \/ Tick({30}, MaxTime)

SpecDelivery == InitAlert /\ [][NextDelivery]_vars

\* C13: no send_alert call lets an exception of a delivery reach its caller,
\* and a call that passed the cooldown with both channels enabled has
\* attempted the webhook delivery, also when the email delivery failed.
C13_ChannelsIndependent ==
    last_op.op = "send_alert" =>
        /\ ~last_op.raised
        /\ (last_op.passed /\ alert_manager.email /\ alert_manager.webhook) =>
               last_op.attempted = {"email", "webhook"}

\* an alert passed the cooldown, its email delivery failed and its webhook
\* delivery went through
C13_Witness ==
    /\ last_op.op = "send_alert"
    /\ last_op.passed
    /\ alert_manager.email /\ alert_manager.webhook
    /\ last_op.delivered = {"webhook"}

\* ---- SpecAudit: the first pass with alerts and metrics switched on ----

InitAudit ==
    /\ ColdCaches
    /\ performance_stats = ImportStats
    /\ alert_manager \in {am \in AlertManagers :
                             /\ am.cooldown_seconds = DEFAULT_COOLDOWN_MINUTES * 60
                             /\ am.enabled /\ am.email /\ am.webhook}
    /\ alert_window = <<>>
    /\ metrics_db \in {m \in MetricsDbs :
                          m.enabled /\ m.sample_interval = DEFAULT_SAMPLE_INTERVAL}
    /\ db = EmptyDb
    /\ MainAside
    /\ last_op = [op |-> "none"]

NextAudit ==
    \/ Startup(StartupFamily)
    \/ PassRead(PassPercents)
    \/ PassAfterDrop(PassPercents, PassFamily)
    \/ PassRestart(ActionOutcomes)
    \/ PassAfterRestart(PassPercents)

SpecAudit == InitAudit /\ [][NextAudit]_vars

\* C14: a call of restart_app ends in one of the outcomes success, timeout,
\* failed or error, hands that outcome to record_action (the row written
\* carries the service and the outcome) and returns to the cascade, which
\* sleeps for the settle delay, reads the swap usage and, on a reading that
\* is not below the low threshold with apps left in the ranked list, goes on
\* to the next one, whatever the outcome was.
C14_OutcomeClassifiedCascadeGoesOn ==
    /\ [][(pc = "pass_cascade" /\ pc' # "pass_cascade") =>
              /\ pc' = "pass_settle_restart"
              /\ last_op'.op = "restart_app"
              /\ last_op'.outcome \in RestartOutcomes
              /\ last_op'.tried
              /\ pass'.restarted = Append(pass.restarted, last_op'.service)
              /\ last_op'.recorded =>
                     ActionRows(db') =
                        Append(ActionRows(db),
                               [timestamp |-> now, action_type |-> "restart",
                                target |-> last_op'.service,
                                result |-> last_op'.outcome])]_vars
    /\ [][pc = "pass_settle_restart" =>
              /\ last_op.op = "restart_app"
              /\ now' = now + SETTLE_SECONDS
              /\ (swap_percent' >= swap_low_threshold /\ app_index < Len(top_apps)) =>
                     /\ pc' = "pass_cascade"
                     /\ app_index' = app_index + 1
                     /\ pass'.running]_vars

\* the cascade is restarting a third service after the restart of the first
\* timed out and that of the second failed
C14_Witness ==
    /\ pc = "pass_settle_restart"
    /\ Len(pass.restarted) = 3
    /\ Len(db.actions_log) = 3
    /\ db.actions_log[1].result = "timeout"
    /\ db.actions_log[2].result = "failed"
    /\ db.actions_log[1].target = pass.restarted[1]
    /\ db.actions_log[2].target = pass.restarted[2]

\* C17 as stated: each step of a pass that enters the cache drop, enters the
\* restarts, ends a restart or returns to the loop calls send_alert and
\* writes to the MetricsDB.
C17_TransitionsReported ==
    [][(/\ pc \in {"pass_read", "pass_settle_drop", "pass_cascade", "pass_settle_restart"}
        /\ \/ pc' \in {"pass_settle_drop", "pass_settle_restart", "loop"}
           \/ pc = "pass_settle_drop" /\ pc' = "pass_cascade"
        /\ pass.first >= swap_high_threshold \/ pc' = "pass_settle_drop") =>
           /\ pass'.alerts = pass.alerts + 1
           /\ \/ db' # db
              \/ "tried" \in DOMAIN last_op' /\ last_op'.tried]_vars

\* ---- SpecTotals: collections on hosts with and without swap ----

\* the maps of the remediation pass, each pid holding no swap or MaxSwapKB
TotalsFamily ==
    [maps |-> PassMaps, durations |-> {1},
     kbs |-> {k \in SwapReadings : \A p \in 1..MaxProcs : k[p] \in {0, MaxSwapKB}},
     percents |-> {30}]

\* A call of get_top_swap_apps(force_refresh), with the totals the two
\* sources answered kept for inspection.
CollectShowing(force_refresh, f) ==
    /\ CountersBelow(1)
    /\ \E env \in RelevantEnvs(force_refresh, now, Caches, f) :
          LET r == get_top_swap_apps(force_refresh, now, Caches, env)
          IN /\ SetCaches(r)
             /\ last_op' = [op |-> "collect", force |-> force_refresh, kind |-> r.kind,
                            pid_hit |-> r.pid_hit, primary |-> env.primary,
                            secondary |-> env.secondary]
    /\ UNCHANGED <<now, alertVars, metricsVars, mainVars>>

NextTotals ==
    \/ CollectShowing(FALSE, TotalsFamily)
    \/ Tick({PID_CACHE_SECONDS}, MaxTime)

SpecTotals == InitRank /\ [][NextTotals]_vars

\* C21: a collection that is not served from the cache and finds no swap in
\* psutil nor in /proc/meminfo caches and returns the empty list, and leaves
\* the pid cache, the time of its scan and every counter as they were; one
\* that finds swap in either source ranks one entry per app of the pid
\* cache, and with psutil reporting none the percentages are taken of the
\* total of /proc/meminfo.
C21_NoSwapNoScan ==
    [][(last_op'.op = "collect" /\ last_op'.kind # "hit") =>
          IF last_op'.primary = 0 /\ last_op'.secondary = 0
          THEN /\ last_op'.kind = "noswap"
               /\ cached_swap_data' = <<>>
               /\ last_swap_scan' = now
               /\ cached_monitored_pids' = cached_monitored_pids
               /\ last_pid_scan' = last_pid_scan
               /\ performance_stats' = performance_stats
          ELSE /\ last_op'.kind = "real"
               /\ Len(cached_swap_data') = Len(cached_monitored_pids')
               /\ last_op'.primary = 0 =>
                      \A i \in 1..Len(cached_swap_data') :
                         cached_swap_data'[i].swap_percent =
                            (cached_swap_data'[i].swap_bytes * 100)
                               \div last_op'.secondary]_vars

\* psutil reported no swap, /proc/meminfo did, and the app on top of the
\* ranked list holds two percent of it
C21_Witness ==
    /\ last_op.op = "collect"
    /\ last_op.kind = "real"
    /\ last_op.primary = 0
    /\ last_op.secondary > 0
    /\ Len(cached_swap_data) = 3
    /\ cached_swap_data[1].swap_percent = 2

\* ---- SpecKeys: pass after pass on readings at and above the threshold ----

\* psutil.swap_memory().percent as the pass first reads it: under the high
\* threshold, on it, and a point above it
KeyPercents == {swap_high_threshold - 1, swap_high_threshold, swap_high_threshold + 1}

NextKeys ==
    \/ Startup(StartupFamily)
    \/ PassRead(KeyPercents)
    \/ PassAfterDrop({swap_low_threshold - 1}, PassFamily)
    \/ LoopIdle
    \/ StartPass

SpecKeys == Init /\ [][NextKeys]_vars

\* C24 as stated: the cooldown keys the passes of one run record (one
\* severity, one configuration) do not depend on the swap percentages read,
\* so that the alert manager never holds two different keys.
C24_KeysIndependentOfReadings ==
    \A k1, k2 \in DOMAIN alert_manager.last_sent : k1 = k2

\* ---- the end of the restarts (Spec) ----

\* C27 as stated: a pass that went on to the restarts (it logged that the
\* usage is still too high and refreshed the ranked list) has logged, by the
\* time it returns, exactly one conclusion: "Done! ... below the threshold"
\* or "Done! ... still not lower than", also when the refreshed list is
\* empty.
C27_OneConclusionLogged ==
    [][(pass.running /\ ~pass'.running /\ pass'.refreshed) =>
          Cardinality({i \in 1..Len(pass'.log) :
                          pass'.log[i] \in {"done_below", "gave_up"}}) = 1]_vars

\* ---- the cache drop that fails (SpecAudit) ----

\* C26: whatever the outcome of drop_caches (a PermissionError is logged
\* with a message of its own, any other exception with another), the pass
\* goes on and the program keeps running: it sleeps for the settle delay,
\* reads the swap usage again and, on a reading below the low threshold,
\* returns, and otherwise refreshes the ranked list for the restarts.
C26_DropFailureTolerated ==
    [][/\ last_op'.op = "drop_caches" =>
             /\ pc' = "pass_settle_drop"
             /\ pass'.running
             /\ last_op'.outcome = "permission_denied" <=>
                   last_op'.report = "Cannot drop caches: insufficient permissions"
             /\ last_op'.outcome = "failed" <=> last_op'.report = "Failed to drop caches"
       /\ (pc = "pass_settle_drop" /\ last_op.op = "drop_caches") =>
             /\ now' = now + SETTLE_SECONDS
             /\ pc' \in {"loop", "pass_cascade"}
             /\ IF swap_percent' >= swap_low_threshold
                THEN /\ pass'.refreshed
                     /\ last_op'.op = "collect" /\ last_op'.force
                     /\ pc' = "loop" <=> top_apps' = <<>>
                ELSE /\ pc' = "loop"
                     /\ ~pass'.refreshed
                     /\ pass'.log = Append(pass.log, "below_low")]_vars

\* the drop failed (the pass never slept the second that follows a drop),
\* and two seconds after it began the pass is about to restart the first
\* app of the refreshed list
C26_Witness ==
    /\ pc = "pass_cascade"
    /\ pass.running /\ pass.refreshed
    /\ pass.drops = 1
    /\ now = pass.started_at + SETTLE_SECONDS
    /\ swap_percent >= swap_low_threshold
    /\ top_apps # <<>>

\* ---- SpecPass: the first pass, each step taken once the one before it
\* has returned ----

\* monitor_swap_usage is straight-line code around one for loop: when the
\* primitive a step waits for (the swap reading, the cache drop, systemctl,
\* the sleep) returns, the next step runs.
SpecPass == InitAudit /\ [][NextAudit]_vars /\ WF_vars(NextAudit)

\* C28: a pass that has begun returns; the ranked list it restarts from
\* names no app twice and no more apps than are monitored, and the k-th
\* restart of the pass is the restart of the k-th app of that list, so that
\* a pass restarts at most as many services as there are monitored apps.
C28_PassTerminatesRestartsBounded ==
    /\ pass.running ~> ~pass.running
    /\ [](pass.refreshed =>
             /\ \A i, j \in 1..Len(top_apps) : i # j => top_apps[i] # top_apps[j]
             /\ Len(top_apps) <= Len(monitored_apps)
             /\ apps_restarted = Len(pass.restarted)
             /\ apps_restarted <= Len(monitored_apps)
             /\ \A k \in 1..Len(pass.restarted) :
                   /\ k <= Len(top_apps)
                   /\ pass.restarted[k] = ServiceOf(top_apps[k]))

\* the pass has returned after it restarted every monitored app
C28_Witness ==
    /\ ~pass.running
    /\ pass.refreshed
    /\ Len(top_apps) = Len(monitored_apps)
    /\ Len(pass.restarted) = Len(monitored_apps)
    /\ pc = "loop"

\* ------------------------------------------------------------------------
\* main(): the keys of the main view
\* ------------------------------------------------------------------------

\* the rows a log window may have: "bottom_win.getmaxyx()[0] - 2"
ScreenRows == 0..MaxLogLines

\* update_ui shows get_top_swap_apps()
ShowTopApps(f) ==
    /\ CountersBelow(1)
    /\ \E env \in RelevantEnvs(FALSE, now, Caches, f) :
          SetCaches(get_top_swap_apps(FALSE, now, Caches, env))

\* an iteration of "while not _shutdown_requested" reads a key
InLoop == pc = "loop" /\ ~shutdown_requested

\* the main view reads a key: neither the menu nor the theme dialog is open
InMainView == InLoop /\ ~in_menu /\ ~in_theme

\* what a key handler of the loop leaves alone besides the screen
loopVars == <<args, config, swap_high_threshold, swap_low_threshold, last_check_time,
              shutdown_requested, swap_percent, top_apps, app_index, apps_restarted,
              pass, passes>>

\* KEY_UP outside the app selection: "log_scroll_pos = max(0, log_scroll_pos - 1)"
KeyUp ==
    /\ InMainView
    /\ log_scroll_pos' = IF log_scroll_pos - 1 > 0 THEN log_scroll_pos - 1 ELSE 0
    /\ last_op' = [op |-> "key_up"]
    /\ UNCHANGED <<now, cacheVars, alertVars, metricsVars, screenVars, log_lines, args, config,
                   pc, swap_high_threshold, swap_low_threshold, last_check_time,
                   shutdown_requested, swap_percent, top_apps, app_index, apps_restarted,
                   pass, passes>>

\* KEY_DOWN outside the app selection: "max_scroll = max(len(log_lines) -
\* log_lines_visible, 0); log_scroll_pos = min(max_scroll, log_scroll_pos + 1)"
KeyDown ==
    /\ InMainView
    /\ LET max_scroll == IF Len(log_lines) - log_lines_visible > 0
                         THEN Len(log_lines) - log_lines_visible ELSE 0
       IN log_scroll_pos' = IF max_scroll < log_scroll_pos + 1
                            THEN max_scroll ELSE log_scroll_pos + 1
    /\ last_op' = [op |-> "key_down"]
    /\ UNCHANGED <<now, cacheVars, alertVars, metricsVars, screenVars, log_lines, args, config,
                   pc, swap_high_threshold, swap_low_threshold, last_check_time,
                   shutdown_requested, swap_percent, top_apps, app_index, apps_restarted,
                   pass, passes>>

\* KEY_RESIZE: the windows are set up again, the log window gets its new
\* number of rows and update_ui shows get_top_swap_apps().
Resize(rows, f) ==
    /\ InMainView
    /\ \E visible \in rows : log_lines_visible' = visible
    /\ ShowTopApps(f)
    /\ last_op' = [op |-> "resize"]
    /\ UNCHANGED <<now, alertVars, metricsVars, in_menu, in_theme, in_app_select, logVars,
                   args, config, pc, swap_high_threshold, swap_low_threshold, last_check_time,
                   shutdown_requested, swap_percent, top_apps, app_index, apps_restarted,
                   pass, passes>>

\* ---- SpecLog: the log window from start-up on, pass after pass ----

\* a scan finds one nginx process, and the terminal may give the log window
\* any number of rows
LogFamily == MetricsFamily @@ [rows |-> ScreenRows]

NextLog ==
    \/ Startup(LogFamily)
    \/ PassRead({swap_high_threshold - 1})
    \/ LoopIdle
    \/ StartPass
    \/ KeyUp
    \/ KeyDown
    \/ Resize(ScreenRows, LogFamily)

SpecLog == Init /\ [][NextLog]_vars

\* C30 as stated: the scroll position of the log is never negative and never
\* more than the number of retained lines, and the log never retains more
\* than MAX_LOG_LINES lines.
C30_ScrollWithinLog ==
    /\ 0 <= log_scroll_pos
    /\ log_scroll_pos <= Len(log_lines)
    /\ Len(log_lines) <= MAX_LOG_LINES

\* ------------------------------------------------------------------------
\* main(): the menu, the dialogs and the overlays
\* ------------------------------------------------------------------------

\* 'm' in the main view opens the monitored-apps menu.
KeyMenu ==
    /\ InMainView
    /\ in_menu' = TRUE
    /\ last_op' = [op |-> "key_menu"]
    /\ UNCHANGED <<now, cacheVars, alertVars, metricsVars, in_theme, in_app_select,
                   log_lines_visible, logVars, pc, loopVars>>

\* 'q' or Esc in the menu closes it; update_ui shows get_top_swap_apps().
MenuClose(f) ==
    /\ InLoop /\ ~in_theme /\ in_menu
    /\ in_menu' = FALSE
    /\ ShowTopApps(f)
    /\ last_op' = [op |-> "menu_close"]
    /\ UNCHANGED <<now, alertVars, metricsVars, in_theme, in_app_select, log_lines_visible,
                   logVars, pc, loopVars>>

\* 't' in the main view opens the theme dialog.
KeyTheme ==
    /\ InMainView
    /\ in_theme' = TRUE
    /\ last_op' = [op |-> "key_theme"]
    /\ UNCHANGED <<now, cacheVars, alertVars, metricsVars, in_menu, in_app_select,
                   log_lines_visible, logVars, pc, loopVars>>

\* Enter, 'q' or Esc in the theme dialog closes it; update_ui shows
\* get_top_swap_apps().
ThemeClose(f) ==
    /\ InLoop /\ in_theme
    /\ in_theme' = FALSE
    /\ ShowTopApps(f)
    /\ last_op' = [op |-> "theme_close"]
    /\ UNCHANGED <<now, alertVars, metricsVars, in_menu, in_app_select, log_lines_visible,
                   logVars, pc, loopVars>>

\* '?' in the main view: show_help draws the overlay and polls the keyboard,
\* "while True: key = stdscr.getch(); if key == ord('q') or key == 27:
\* break; time.sleep(0.1)".
KeyHelp ==
    /\ InMainView
    /\ pc' = "help"
    /\ last_op' = [op |-> "key_help"]
    /\ UNCHANGED <<now, cacheVars, alertVars, metricsVars, screenVars, logVars, loopVars>>

\* 'q' or Esc ends show_help; update_ui shows get_top_swap_apps().
HelpDismiss(f) ==
    /\ pc = "help"
    /\ pc' = "loop"
    /\ ShowTopApps(f)
    /\ last_op' = [op |-> "help_dismiss"]
    /\ UNCHANGED <<now, alertVars, metricsVars, screenVars, logVars, loopVars>>

\* '/' in the main view: enter_search_mode makes getch blocking and reads
\* keys until Enter or Esc.
KeySearch ==
    /\ InMainView
    /\ pc' = "search"
    /\ last_op' = [op |-> "key_search"]
    /\ UNCHANGED <<now, cacheVars, alertVars, metricsVars, screenVars, logVars, loopVars>>

\* Enter or Esc ends enter_search_mode; with a query that matches a line,
\* the log scrolls to the first match: "log_scroll_pos = max(0,
\* _search_matches[0] - log_lines_visible // 2)".
SearchDone ==
    /\ pc = "search"
    /\ pc' = "loop"
    /\ \/ UNCHANGED log_scroll_pos
       \/ \E first \in 0..(Len(log_lines) - 1) :
             log_scroll_pos' = IF first - (log_lines_visible \div 2) > 0
                               THEN first - (log_lines_visible \div 2) ELSE 0
    /\ last_op' = [op |-> "search_done"]
    /\ UNCHANGED <<now, cacheVars, alertVars, metricsVars, screenVars, log_lines, loopVars>>

\* 'd' in the main view with no row selected: the first row of the top apps
\* is selected; update_ui shows get_top_swap_apps().
KeySelect(f) ==
    /\ InMainView
    /\ ~in_app_select
    /\ in_app_select' = TRUE
    /\ ShowTopApps(f)
    /\ last_op' = [op |-> "key_select"]
    /\ UNCHANGED <<now, alertVars, metricsVars, in_menu, in_theme, log_lines_visible,
                   logVars, pc, loopVars>>

\* 'd' or Enter with a row selected: "top_apps = get_top_swap_apps()[:10]",
\* and when that list has the selected row, show_process_detail looks the app
\* up in get_monitored_pids_cached(), draws the overlay and waits in
\* _wait_for_dismiss.
KeyDetail(f) ==
    /\ InMainView
    /\ in_app_select
    /\ CountersBelow(2)
    /\ \E env \in RelevantEnvs(FALSE, now, Caches, f) :
          LET c == get_top_swap_apps(FALSE, now, Caches, env)
          IN IF c.cached_swap = <<>>
             THEN /\ SetCaches(c)
                  /\ UNCHANGED pc
             ELSE \E m \in f.maps, d \in f.durations :
                     LET r == get_monitored_pids_cached(FALSE, now, c.cached_pids, c.last_pid,
                                                        c.stats, m, d)
                     IN /\ cached_monitored_pids' = r.cached
                        /\ last_pid_scan' = r.last
                        /\ performance_stats' = r.stats
                        /\ cached_swap_data' = c.cached_swap
                        /\ last_swap_scan' = c.last_swap
                        /\ pc' = "detail"
    /\ last_op' = [op |-> "key_detail"]
    /\ UNCHANGED <<now, alertVars, metricsVars, screenVars, logVars, loopVars>>

\* _wait_for_dismiss: "while True: key = stdscr.getch(); if key in
\* (ord('q'), 27): break; time.sleep(0.1)".  'q' or Esc ends it; the row is
\* deselected and update_ui shows get_top_swap_apps().
DetailDismiss(f) ==
    /\ pc = "detail"
    /\ pc' = "loop"
    /\ in_app_select' = FALSE
    /\ ShowTopApps(f)
    /\ last_op' = [op |-> "detail_dismiss"]
    /\ UNCHANGED <<now, alertVars, metricsVars, in_menu, in_theme, log_lines_visible,
                   logVars, loopVars>>

\* ---- SpecUi: the keyboard and the signal; the program's own steps are
\* taken, the user may press no key at all ----

\* the steps the program takes by itself: the start-up, the loop and its
\* passes on a reading under the high threshold, and the end of the loop
ProgramStep ==
    \/ Startup(LogFamily)
    \/ PassRead({swap_high_threshold - 1})
    \/ LoopIdle
    \/ StartPass
    \/ Exit

\* the keys the user may press
KeyPress ==
    \/ KeyMenu
    \/ MenuClose(LogFamily)
    \/ KeyTheme
    \/ ThemeClose(LogFamily)
    \/ KeyHelp
    \/ HelpDismiss(LogFamily)
    \/ KeySearch
    \/ SearchDone
    \/ KeySelect(LogFamily)
    \/ KeyDetail(LogFamily)
    \/ DetailDismiss(LogFamily)

NextUi ==
    \/ ProgramStep
    \/ KeyPress
    \/ Signal

SpecUi == InitAudit /\ [][NextUi]_vars /\ WF_vars(ProgramStep)

\* C29 as stated: once _shutdown_requested is set, the loop ends and the
\* MetricsDB is closed, in whatever mode the screen is, with no key pressed.
C29_ShutdownExits ==
    shutdown_requested ~> (pc = "exited" /\ ~metrics_db.conn)

====
